---- MODULE Spec2Model ----
(***************************************************************************)
(* zc.zk: the session layer of src/src/zc/zk/__init__.py (class ZooKeeper, *)
(* WatchManager, NodeInfo) over the tree service it talks to, whose        *)
(* behaviour is taken from the in-memory service of                        *)
(* src/src/zc/zk/testing.py (class ZooKeeper, class Node).                 *)
(*                                                                         *)
(* One local session (the object under study) and one other session share  *)
(* the tree.  The user thread of the local session issues calls; the       *)
(* client thread of the low-level library delivers session events, watch   *)
(* events and asynchronous completions, one handler at a time.             *)
(***************************************************************************)
EXTENDS Integers, Sequences, FiniteSets, TLC

\* ------------------------------------------------------------------ bounds

\* Observers the user code may hold at once.
MaxObs == 2
Obs == 1..MaxObs
\* Asynchronous requests that may be in flight at once.
MaxInflight == 1
\* Primitive watch handlers (armed or fired and undelivered) per key.
MaxArmed == 2

\* The tree: the root "/" always exists; the nodes below it come and go.
Root == "/"
Names == {"/e", "/f"}
Payloads == {"d0", "d1"}

\* --------------------------------------------------------------- constants

OPEN_ACL_UNSAFE == {"READ", "WRITE", "CREATE", "DELETE", "ADMIN"}
READ_ACL_UNSAFE == {"READ"}
Acls == {OPEN_ACL_UNSAFE, READ_ACL_UNSAFE}

EPHEMERAL == {"EPHEMERAL"}
FlagSets == {{}, EPHEMERAL}

CHANGED_EVENT == "CHANGED"
CHILD_EVENT == "CHILD"
DELETED_EVENT == "DELETED"
Kinds == {CHANGED_EVENT, CHILD_EVENT}

CONNECTED_STATE == "CONNECTED"
CONNECTING_STATE == "CONNECTING"

\* self.handle: None, or the one index the low-level library hands out
\* (the index of a closed session is given out again).
None == "None"
Handle == "h0"

\* Keys of the watch registry: (event kind, resolved path).
Keys == Kinds \X (Names \cup {Root})

\* ------------------------------------------------------------ the service

NoNode == [exists |-> FALSE]
MkNode(data, acl, flags) ==
    [exists |-> TRUE, data |-> data, acl |-> acl,
     eph |-> (flags \cap EPHEMERAL) # {}]

RootAcl == OPEN_ACL_UNSAFE

Exists(t, p) == p = Root \/ (p \in Names /\ t[p].exists)
ChildrenOf(t, p) == IF p = Root THEN {n \in Names : t[n].exists} ELSE {}

\* The events a change raises, in the order the service raises them.
Ev(kind, path, type) == [key |-> <<kind, path>>, type |-> type]

\* Session.check: the low-level session must be connected.
Check(low) == IF low = CONNECTED_STATE THEN "OK" ELSE "CONNECTIONLOSS"

\* Results of a service call: a status, the tree and the events raised.
Res(status, t, evs) == [status |-> status, tree |-> t, events |-> evs]

ZkCreate(t, low, p, data, acl, flags) ==
    IF Check(low) # "OK" THEN Res(Check(low), t, <<>>)
    ELSE IF "CREATE" \notin RootAcl THEN Res("NOAUTH", t, <<>>)
    ELSE IF t[p].exists THEN Res("NODEEXISTS", t, <<>>)
    ELSE Res("OK", [t EXCEPT ![p] = MkNode(data, acl, flags)],
             << Ev(CHILD_EVENT, Root, CHILD_EVENT) >>)

\* _delete: stale is a version argument that differs from the node's.
ZkDelete(t, low, p, stale) ==
    IF Check(low) # "OK" THEN Res(Check(low), t, <<>>)
    ELSE IF ~t[p].exists THEN Res("NONODE", t, <<>>)
    ELSE IF stale THEN Res("BADVERSION", t, <<>>)
    ELSE IF "DELETE" \notin RootAcl THEN Res("NOAUTH", t, <<>>)
    ELSE Res("OK", [t EXCEPT ![p] = NoNode],
             << Ev(CHANGED_EVENT, p, DELETED_EVENT),
                Ev(CHILD_EVENT, p, DELETED_EVENT),
                Ev(CHILD_EVENT, Root, CHILD_EVENT) >>)

ZkSet(t, low, p, data, stale) ==
    IF Check(low) # "OK" THEN Res(Check(low), t, <<>>)
    ELSE IF ~t[p].exists THEN Res("NONODE", t, <<>>)
    ELSE IF "WRITE" \notin t[p].acl THEN Res("NOAUTH", t, <<>>)
    ELSE IF stale THEN Res("BADVERSION", t, <<>>)
    ELSE Res("OK", [t EXCEPT ![p].data = data],
             << Ev(CHANGED_EVENT, p, CHANGED_EVENT) >>)

ZkSetAcl(t, low, p, stale, acl) ==
    IF Check(low) # "OK" THEN Res(Check(low), t, <<>>)
    ELSE IF ~t[p].exists THEN Res("NONODE", t, <<>>)
    ELSE IF "ADMIN" \notin t[p].acl THEN Res("NOAUTH", t, <<>>)
    ELSE IF stale THEN Res("BADVERSION", t, <<>>)
    ELSE Res("OK", [t EXCEPT ![p].acl = acl], <<>>)

\* _clear_session: the session's ephemeral nodes go with it.
ClearSession(t) == [p \in Names |-> IF t[p].exists /\ t[p].eph THEN NoNode ELSE t[p]]

\* -------------------------------------------------------------- observers

\* Callbacks user code may subscribe: "good" returns, "bad" raises, "late"
\* returns when observer(func) calls it and raises (CancelWatch or another
\* exception) when a notification calls it, "opt" returns and has an optional
\* argument.
CBs == {"good", "bad", "late", "opt"}
\* The callback raises when observer(func) calls it.
Raises(cb) == cb = "bad"
\* The callback raises when a notification calls it.
RaisesLater(cb) == cb \in {"bad", "late"}
\* The callback can be called without arguments.
TakesNoArgs(cb) == cb = "opt"

\* Snapshots.  NoData: the data attribute was never set.
NoData == [nodata |-> TRUE]
EmptyDict == [empty |-> TRUE]
NotCalled == [notcalled |-> TRUE]
DeletedCall == [noargs |-> TRUE]

decode(sdata) == IF sdata = "" THEN EmptyDict ELSE [string_value |-> sdata]

\* What zkfunc returns for a key and what setData makes of it.
Snapshot(t, key) ==
    IF key[1] = CHILD_EVENT THEN [children |-> ChildrenOf(t, key[2])]
    ELSE decode(IF key[2] = Root THEN "" ELSE t[key[2]].data)

FreeObs ==
    [live |-> FALSE, kind |-> CHILD_EVENT, path |-> Root, real_path |-> Root,
     data |-> NoData, deleted |-> FALSE, callbacks |-> {},
     seen |-> [c \in CBs |-> NotCalled]]

\* NodeInfo.__init__ before session._watch(self).
NewObs(kind, path) == [FreeObs EXCEPT !.live = TRUE, !.kind = kind, !.path = path,
                                      !.real_path = path]

\* A _notify that calls the callbacks and keeps those that raise.
_notify_keep(rec, v) ==
    [rec EXCEPT !.data = v,
                !.seen = [c \in CBs |-> IF c \in rec.callbacks THEN v ELSE @[c]]]

\* NodeInfo._notify(data) with data not None: every subscribed callback is
\* called with the observer; one that raises is removed, the exception is
\* logged and the loop goes on.
_notify(rec, v) ==
    [rec EXCEPT !.data = v,
                !.seen = [c \in CBs |-> IF c \in rec.callbacks THEN v ELSE @[c]],
                !.callbacks = {c \in @ : ~RaisesLater(c)}]

\* A _deleted that calls every subscribed callback.
_deleted_call_all(rec) ==
    [rec EXCEPT !.deleted = TRUE, !.data = EmptyDict,
                !.seen = [c \in CBs |-> IF c \in rec.callbacks THEN DeletedCall ELSE @[c]]]

\* NodeInfo._deleted: callback() runs the callbacks that can be called
\* without arguments; for the others the call raises TypeError, which is
\* passed over.
_deleted(rec) ==
    [rec EXCEPT !.deleted = TRUE, !.data = EmptyDict,
                !.seen = [c \in CBs |-> IF c \in rec.callbacks /\ TakesNoArgs(c)
                                        THEN DeletedCall ELSE @[c]]]

\* Resolving.resolve on a tree without node links and a path without dots.
resolve(t, low, path) ==
    IF Check(low) # "OK" THEN Check(low)
    ELSE IF Exists(t, path) THEN "OK" ELSE "NONODE"

\* The part of the session a handler works on.  exc: the exception raised.
Ctx(w, o, a, p) == [watches |-> w, obs |-> o, armed |-> a, pending |-> p, exc |-> "none"]

RECURSIVE SeqOf(_)
SeqOf(S) == IF S = {} THEN <<>>
            ELSE LET x == CHOOSE y \in S : TRUE IN <<x>> \o SeqOf(S \ {x})

\* All orders a set can be iterated in.
RECURSIVE Orders(_)
Orders(S) == IF S = {} THEN {<<>>}
             ELSE UNION {{<<x>> \o s : s \in Orders(S \ {x})} : x \in S}

\* WatchManager.add, pop, clear; a key is in the registry while it has observers.
add(w, key, o) == [w EXCEPT ![key] = @ \cup {o}]
pop(w, key) == [w EXCEPT ![key] = {}]
clear(w) == [k \in Keys |-> {}]
Registered(w) == UNION {w[k] : k \in Keys}

\* WatchManager.__len__: the references whose observer is still there,
\* summed over the keys.
RECURSIVE SumOver(_, _)
SumOver(f, S) == IF S = {} THEN 0
                 ELSE LET x == CHOOSE y \in S : TRUE IN f[x] + SumOver(f, S \ {x})
__len__(w, ob) == SumOver([k \in Keys |-> Cardinality({r \in w[k] : ob[r].live})], Keys)

PendingCount(pending, key) == Cardinality({i \in 1..Len(pending) : pending[i].key = key})

RECURSIVE _watch(_, _, _), _rewatch(_, _, _), RewatchLoop(_, _, _, _), handler(_, _, _, _, _)

\* ZooKeeper._watchkey's handler, called with a connected state.
\* The read re-arms the watch; the value goes to every observer of the key.
\* An exception inside is logged, and raised again only for reraise.
Caught(C, reraise) == IF reraise THEN C ELSE [C EXCEPT !.exc = "none"]

handler(C, key, type, t, reraise) ==
    IF C.watches[key] = {} THEN C
    ELSE IF type = DELETED_EVENT THEN Caught(_rewatch(C, key, t), reraise)
    ELSE IF ~Exists(t, key[2]) THEN Caught(_rewatch(C, key, t), reraise)
    ELSE [C EXCEPT !.armed[key] = @ + 1,
                   !.obs = [o \in Obs |-> IF o \in C.watches[key]
                                          THEN _notify(C.obs[o], Snapshot(t, key))
                                          ELSE C.obs[o]]]

\* ZooKeeper._watchkey called while the session is connected.
_watchkey(C, key, t) == handler(C, key, key[1], t, TRUE)

\* ZooKeeper._watch on the client thread (the session is connected).
_watch(C, o, t) ==
    IF ~Exists(t, C.obs[o].path) THEN [C EXCEPT !.exc = "NONODE"]
    ELSE LET key == <<C.obs[o].kind, C.obs[o].path>>
             newkey == C.watches[key] = {}
             C1 == [C EXCEPT !.obs[o].real_path = C.obs[o].path,
                             !.watches = add(@, key, o)]
         IN IF newkey THEN _watchkey(C1, key, t)
            ELSE [C1 EXCEPT !.obs[o] = _notify(@, Snapshot(t, key))]

RewatchLoop(C, ws, i, t) ==
    IF i > Len(ws) \/ C.exc # "none" THEN C
    ELSE LET o == ws[i]
         IN IF ~Exists(t, C.obs[o].path)
            THEN RewatchLoop([C EXCEPT !.obs[o] = _deleted(@)], ws, i + 1, t)
            ELSE RewatchLoop(_watch(C, o, t), ws, i + 1, t)

\* ZooKeeper._rewatch.
_rewatch(C, key, t) ==
    RewatchLoop([C EXCEPT !.watches = pop(@, key)], SeqOf(C.watches[key]), 1, t)

\* The service fires the armed handlers of a key: they are one-shot.
RECURSIVE Fire(_, _, _)
Fire(armed, pending, evs) ==
    IF evs = <<>> THEN [armed |-> armed, pending |-> pending]
    ELSE LET e == Head(evs)
             n == armed[e.key]
         IN Fire([armed EXCEPT ![e.key] = 0],
                 pending \o [i \in 1..n |-> e], Tail(evs))

\* ------------------------------------------------------------ bookkeeping

NoEntry == [present |-> FALSE]
Entry(data, acl, flags) == [present |-> TRUE, data |-> data, acl |-> acl, flags |-> flags]

\* A call of create, delete, set or set_acl with its arguments; stale is a
\* version argument that does not match the node's.
Call(meth, path, data, acl, flags, stale) ==
    [meth |-> meth, path |-> path, data |-> data, acl |-> acl, flags |-> flags,
     stale |-> stale]
Calls ==
    {Call("create", p, d, a, f, FALSE) : p \in Names, d \in Payloads, a \in Acls, f \in FlagSets}
    \cup {Call("delete", p, "d0", OPEN_ACL_UNSAFE, {}, s) : p \in Names, s \in BOOLEAN}
    \cup {Call("set", p, d, OPEN_ACL_UNSAFE, {}, s) : p \in Names, d \in Payloads, s \in BOOLEAN}
    \cup {Call("set_acl", p, "d0", a, {}, s) : p \in Names, a \in Acls, s \in BOOLEAN}

_post_create(eph, c) ==
    IF c.flags \cap EPHEMERAL # {}
    THEN [eph EXCEPT ![c.path] = Entry(c.data, c.acl, c.flags)] ELSE eph
_post_delete(eph, c) == [eph EXCEPT ![c.path] = NoEntry]
_post_set(eph, c) ==
    IF eph[c.path].present THEN [eph EXCEPT ![c.path].data = c.data] ELSE eph
_post_set_acl(eph, c) ==
    IF eph[c.path].present THEN [eph EXCEPT ![c.path].acl = c.acl] ELSE eph

post(eph, c) ==
    CASE c.meth = "create" -> _post_create(eph, c)
      [] c.meth = "delete" -> _post_delete(eph, c)
      [] c.meth = "set" -> _post_set(eph, c)
      [] c.meth = "set_acl" -> _post_set_acl(eph, c)

\* getattr(zookeeper, meth)(self.handle, *args)
ZkCall(t, h, low, c) ==
    IF h = None THEN Res("BADHANDLE", t, <<>>)
    ELSE CASE c.meth = "create" -> ZkCreate(t, low, c.path, c.data, c.acl, c.flags)
           [] c.meth = "delete" -> ZkDelete(t, low, c.path, c.stale)
           [] c.meth = "set" -> ZkSet(t, low, c.path, c.data, c.stale)
           [] c.meth = "set_acl" -> ZkSetAcl(t, low, c.path, c.stale, c.acl)

\* _async with completion None: a call that raises skips the bookkeeping.
_async(eph, c, status) == IF status = "OK" THEN post(eph, c) ELSE eph

\* An asynccb that does its bookkeeping whatever the status.
asynccb_unconditional(eph, c, status) ==
    [ephemeral |-> post(eph, c),
     completion |-> [op |-> "completion", status |-> status, call |-> c]]

\* _async's asynccb: bookkeeping for status 0 only, then the user's completion
\* is called with the status.
asynccb(eph, c, status) ==
    [ephemeral |-> IF status = "OK" THEN post(eph, c) ELSE eph,
     completion |-> [op |-> "completion", status |-> status, call |-> c]]

\* ------------------------------------------------------------------ state

VARIABLES
    tree,       \* the service's nodes below the root
    handle,     \* self.handle
    low,        \* state of the low-level session: CONNECTED, CONNECTING,
                \* NEW (init() called, no CONNECTED event yet) or CLOSED
    connected,  \* the threading.Event self.connected
    ephemeral,  \* self.ephemeral
    watches,    \* self.watches.data
    obs,        \* the NodeInfo objects
    armed,      \* handlers armed at the service for the low-level session
    pending,    \* watch events fired and not yet handled
    ctor,       \* where the user thread is inside children()/properties()
    inflight,   \* asynchronous requests not yet completed
    last        \* what the last step was: a user's call or completion with its
                \* status, a subscription, a handled watch event, another
                \* session's change, or none of these

vars == <<tree, handle, low, connected, ephemeral, watches, obs, armed, pending,
          ctor, inflight, last>>

Idle == [pc |-> "idle", o |-> 1]
NoCall == [op |-> "none", status |-> "none"]
Did(op, status) == [op |-> op, status |-> status]

Init ==
    /\ tree = [p \in Names |-> NoNode]
    /\ handle = Handle
    /\ low = CONNECTED_STATE
    /\ connected = TRUE
    /\ ephemeral = [p \in Names |-> NoEntry]
    /\ watches = [k \in Keys |-> {}]
    /\ obs = [o \in Obs |-> FreeObs]
    /\ armed = [k \in Keys |-> 0]
    /\ pending = <<>>
    /\ ctor = Idle
    /\ inflight = <<>>
    /\ last = NoCall

\* The state property: self.handle None reads as CONNECTING.
state == IF handle = None THEN CONNECTING_STATE ELSE low

\* ------------------------------------------------- user thread: mutations

\* create/delete/set/set_acl with completion None.  track: whether the
\* call's outcome is recorded in last.
LocalCall(c, track) ==
    /\ ctor.pc = "idle"
    /\ LET r == ZkCall(tree, handle, low, c)
           f == Fire(armed, pending, r.events)
       IN /\ tree' = r.tree
          /\ armed' = f.armed
          /\ pending' = f.pending
          /\ ephemeral' = _async(ephemeral, c, r.status)
          /\ last' = IF track THEN [op |-> "call", status |-> r.status, call |-> c]
                      ELSE NoCall
    /\ UNCHANGED <<handle, low, connected, watches, obs, ctor, inflight>>

Create(S, track) == \E c \in {x \in S : x.meth = "create"} : LocalCall(c, track)
Delete(S, track) == \E c \in {x \in S : x.meth = "delete"} : LocalCall(c, track)
Set(S, track) == \E c \in {x \in S : x.meth = "set"} : LocalCall(c, track)
SetAcl(S, track) == \E c \in {x \in S : x.meth = "set_acl"} : LocalCall(c, track)

\* acreate/adelete/aset/aset_acl: the request is queued.
AsyncCall(S) ==
    /\ ctor.pc = "idle"
    /\ handle # None
    /\ Len(inflight) < MaxInflight
    /\ \E c \in S : inflight' = Append(inflight, c)
    /\ last' = NoCall
    /\ UNCHANGED <<tree, handle, low, connected, ephemeral, watches, obs, armed,
                   pending, ctor>>

\* Client thread: the service answers the oldest request; asynccb runs.
Complete ==
    /\ inflight # <<>>
    /\ handle # None
    /\ low = CONNECTED_STATE
    /\ LET c == Head(inflight)
           r == ZkCall(tree, handle, low, c)
           f == Fire(armed, pending, r.events)
       IN /\ tree' = r.tree
          /\ armed' = f.armed
          /\ pending' = f.pending
          /\ ephemeral' = asynccb(ephemeral, c, r.status).ephemeral
          /\ last' = asynccb(ephemeral, c, r.status).completion
    /\ inflight' = Tail(inflight)
    /\ UNCHANGED <<handle, low, connected, watches, obs, ctor>>

\* ------------------------------------------------- user thread: observers

\* The slot a new observer object takes.
FreeSlots == {o \in Obs : ~obs[o].live}
FirstFree == CHOOSE o \in FreeSlots : \A q \in FreeSlots : o <= q

\* A weak reference callback that leaves the registry as it is.
_remove_nothing(w, o) == w

\* The weak reference's callback: WatchManager._remove.
_remove(w, o) == [k \in Keys |-> w[k] \ {o}]

\* children(path) / properties(path): NodeInfo.__init__ up to the registry's
\* add in _watch.  With the key already watched the value is read and the
\* constructor returns; otherwise _watchkey follows.  K: the keys asked for;
\* n: the observers user code holds at most.
CtorBegin(K, n) ==
    /\ ctor.pc = "idle"
    /\ Cardinality(Obs \ FreeSlots) < n
    /\ \E key \in K :
         LET o == FirstFree
             r == IF handle = None THEN "BADHANDLE" ELSE resolve(tree, low, key[2])
         IN /\ watches[key] = {} => armed[key] + PendingCount(pending, key) < MaxArmed
            /\ IF r # "OK"
               THEN UNCHANGED <<watches, obs, ctor>>
               ELSE IF watches[key] # {}
               THEN /\ watches' = add(watches, key, o)
                    /\ obs' = [obs EXCEPT ![o] = _notify(NewObs(key[1], key[2]),
                                                         Snapshot(tree, key))]
                    /\ UNCHANGED ctor
               ELSE /\ watches' = add(watches, key, o)
                    /\ obs' = [obs EXCEPT ![o] = NewObs(key[1], key[2])]
                    /\ ctor' = [pc |-> "watchkey", o |-> o]
    /\ last' = NoCall
    /\ UNCHANGED <<tree, handle, low, connected, ephemeral, armed, pending, inflight>>

\* _watchkey evaluates self.state; the handler returns at once for a state
\* that is not connected, and the constructor returns the observer.
CtorCheck ==
    /\ ctor.pc = "watchkey"
    /\ ctor' = IF state # CONNECTED_STATE THEN Idle ELSE [ctor EXCEPT !.pc = "read"]
    /\ last' = NoCall
    /\ UNCHANGED <<tree, handle, low, connected, ephemeral, watches, obs, armed,
                   pending, inflight>>

\* The handler's body on the user thread: the read that arms the watch.
\* A failed assertion or read raises; _watch handles ConnectionLoss by
\* popping the key and marking its observers deleted.  The object of a
\* constructor that raised is never bound, so its weak reference goes.
CtorRead ==
    /\ ctor.pc = "read"
    /\ LET o == ctor.o
           key == <<obs[o].kind, obs[o].real_path>>
           C == Ctx(watches, obs, armed, pending)
       IN IF handle = None
          THEN /\ watches' = _remove(watches, o)
               /\ obs' = [obs EXCEPT ![o] = FreeObs]
               /\ UNCHANGED <<armed, pending>>
          ELSE IF low # CONNECTED_STATE
          THEN /\ watches' = pop(watches, key)
               /\ obs' = [q \in Obs |-> IF q = o THEN FreeObs
                                        ELSE IF q \in watches[key] THEN _deleted(obs[q])
                                        ELSE obs[q]]
               /\ UNCHANGED <<armed, pending>>
          ELSE LET D == handler(C, key, key[1], tree, TRUE)
               IN /\ watches' = D.watches
                  /\ obs' = D.obs
                  /\ armed' = D.armed
                  /\ pending' = D.pending
    /\ ctor' = Idle
    /\ last' = NoCall
    /\ UNCHANGED <<tree, handle, low, connected, ephemeral, inflight>>

\* An observer(func) that subscribes func before it calls it.
__call__subscribe_first(rec, cb) ==
    [rec EXCEPT !.seen[cb] = rec.data, !.callbacks = @ \cup {cb}]

\* observer(func): NodeInfo.__call__.
__call__(rec, cb) ==
    [rec EXCEPT !.seen[cb] = rec.data,
                !.callbacks = IF Raises(cb) THEN @ ELSE @ \cup {cb}]

Subscribe(F) ==
    /\ ctor.pc = "idle"
    /\ \E o \in Obs, cb \in F :
         /\ obs[o].live
         /\ cb \notin obs[o].callbacks
         /\ obs' = [obs EXCEPT ![o] = __call__(@, cb)]
         /\ last' = [op |-> "observer", status |-> IF Raises(cb) THEN "EXCEPTION" ELSE "OK",
                      o |-> o, cb |-> cb]
    /\ UNCHANGED <<tree, handle, low, connected, ephemeral, watches, armed, pending,
                   ctor, inflight>>

\* User code lets go of an observer: its weak reference leaves the registry.
Drop ==
    /\ ctor.pc = "idle"
    /\ \E o \in Obs :
         /\ obs[o].live
         /\ obs' = [obs EXCEPT ![o] = FreeObs]
         /\ watches' = _remove(watches, o)
    /\ last' = NoCall
    /\ UNCHANGED <<tree, handle, low, connected, ephemeral, armed, pending, ctor,
                   inflight>>

\* ---------------------------------------------------------- client thread

\* A watch event reaches its handler (state connected, reraise false).
Deliver ==
    /\ pending # <<>>
    /\ handle # None
    /\ low = CONNECTED_STATE
    /\ LET e == Head(pending)
           D == handler(Ctx(watches, obs, armed, Tail(pending)), e.key, e.type, tree, FALSE)
       IN /\ watches' = D.watches
          /\ obs' = D.obs
          /\ armed' = D.armed
          /\ pending' = D.pending
          /\ last' = [op |-> "event", status |-> IF D.exc = "none" THEN "OK" ELSE D.exc,
                       key |-> e.key]
    /\ UNCHANGED <<tree, handle, low, connected, ephemeral, ctor, inflight>>

\* watch_session, CONNECTING_STATE: the connection is suspended.  Handlers
\* called with the session event return at once and stay armed.
Disconnect ==
    /\ low = CONNECTED_STATE
    /\ handle # None
    /\ low' = CONNECTING_STATE
    /\ connected' = FALSE
    /\ last' = NoCall
    /\ UNCHANGED <<tree, handle, ephemeral, watches, obs, armed, pending, ctor, inflight>>

\* watch_session, CONNECTED_STATE with self.handle set: same session again.
Reconnect ==
    /\ low = CONNECTING_STATE
    /\ handle # None
    /\ low' = CONNECTED_STATE
    /\ connected' = TRUE
    /\ last' = NoCall
    /\ UNCHANGED <<tree, handle, ephemeral, watches, obs, armed, pending, ctor, inflight>>

\* zookeeper.close(handle): the service forgets the session, its ephemeral
\* nodes and its watches; requests in flight complete with a closing status.
RECURSIVE Flush(_, _)
Flush(eph, reqs) ==
    IF reqs = <<>> THEN eph
    ELSE Flush(asynccb(eph, Head(reqs), "CLOSING").ephemeral, Tail(reqs))

\* watch_session, EXPIRED_SESSION_STATE: close the handle, init() anew.
Expire ==
    /\ handle # None
    /\ low \in {CONNECTED_STATE, CONNECTING_STATE}
    /\ tree' = ClearSession(tree)
    /\ armed' = [k \in Keys |-> 0]
    /\ pending' = <<>>
    /\ ephemeral' = Flush(ephemeral, inflight)
    /\ inflight' = <<>>
    /\ last' = IF inflight = <<>> THEN NoCall
               ELSE asynccb(ephemeral, Head(inflight), "CLOSING").completion
    /\ connected' = FALSE
    /\ handle' = None
    /\ low' = "NEW"
    /\ UNCHANGED <<watches, obs, ctor>>

\* The loops of watch_session for the CONNECTED event of a new session:
\* an exception ends the handler where it is raised.
RECURSIVE WatchLoop(_, _, _, _)
WatchLoop(C, ws, i, t) ==
    IF i > Len(ws) \/ C.exc # "none" THEN C
    ELSE WatchLoop(_watch(C, ws[i], t), ws, i + 1, t)

\* R: the tree, the armed handlers, the pending events, the exception.
RECURSIVE CreateLoop(_, _, _, _)
CreateLoop(R, eph, ps, i) ==
    IF i > Len(ps) \/ R.exc # "none" THEN R
    ELSE LET e == eph[ps[i]]
             r == ZkCreate(R.tree, CONNECTED_STATE, ps[i], e.data, e.acl, e.flags)
             f == Fire(R.armed, R.pending, r.events)
         IN CreateLoop([tree |-> r.tree, armed |-> f.armed, pending |-> f.pending,
                        exc |-> IF r.status = "OK" THEN "none" ELSE r.status],
                       eph, ps, i + 1)

\* watch_session(handle, SESSION_EVENT, CONNECTED_STATE) with self.handle None.
\* wo, eo: the orders the registry and the ephemeral map are iterated in.
watch_session(wo, eo) ==
    LET C == WatchLoop(Ctx(clear(watches), obs, armed, pending), wo, 1, tree)
        R0 == [tree |-> tree, armed |-> C.armed, pending |-> C.pending, exc |-> C.exc]
        R == CreateLoop(R0, ephemeral, eo, 1)
    IN [watches |-> C.watches, obs |-> C.obs, tree |-> R.tree, armed |-> R.armed,
        pending |-> R.pending, connected |-> (R.exc = "none")]

Recover ==
    /\ handle = None
    /\ low = "NEW"
    /\ \E wo \in Orders(Registered(watches)),
          eo \in Orders({p \in Names : ephemeral[p].present}) :
         LET S == watch_session(wo, eo)
         IN /\ watches' = S.watches
            /\ obs' = S.obs
            /\ tree' = S.tree
            /\ armed' = S.armed
            /\ pending' = S.pending
            /\ connected' = S.connected
    /\ handle' = Handle
    /\ low' = CONNECTED_STATE
    /\ last' = NoCall
    /\ UNCHANGED <<ephemeral, ctor, inflight>>

\* close(): zookeeper.close(self.handle); self.handle = None.
Close ==
    /\ ctor.pc = "idle"
    /\ handle # None
    /\ tree' = ClearSession(tree)
    /\ armed' = [k \in Keys |-> 0]
    /\ pending' = <<>>
    /\ ephemeral' = Flush(ephemeral, inflight)
    /\ inflight' = <<>>
    /\ last' = Did("close", "OK")
    /\ handle' = None
    /\ low' = "CLOSED"
    /\ UNCHANGED <<connected, watches, obs, ctor>>

\* ---------------------------------------------------------- other session

\* Another session of the service creates, changes or deletes a node.
Other(S) ==
    \E c \in S :
      LET r == ZkCall(tree, "other", CONNECTED_STATE, c)
          f == Fire(armed, pending, r.events)
      IN /\ r.status = "OK"
         /\ tree' = r.tree
         /\ armed' = f.armed
         /\ pending' = f.pending
         /\ last' = Did("other", "OK")
         /\ UNCHANGED <<handle, low, connected, ephemeral, watches, obs, ctor, inflight>>

\* What the other session does: persistent nodes, open ACL, no versions.
OtherCalls == {x \in Calls : x.flags = {} /\ ~x.stale /\ x.meth # "set_acl"
                             /\ x.acl = OPEN_ACL_UNSAFE}

\* ------------------------------------------------------------- node links

\* A path string is modelled by its split('/'): "/a/b" is <<"", "a", "b">>,
\* "/" is <<"", "">>, "" is <<"">> and the relative "a/b" is <<"a", "b">>.
Segs == {"a", "b"}
Slash == <<"", "">>
\* Nested calls of resolve the interpreter allows (its recursion limit).
MaxDepth == 12

\* The nodes of the tree with node links: the root <<>>, the nodes below it
\* and the nodes below "/a".
NodeIds == {<<>>} \cup {<<x>> : x \in Segs} \cup {<<"a", x>> : x \in Segs}
NoTarget == <<>>

\* path[:-2], path[:-3] and path.rsplit('/', 1)[0]; rsplit's second part.
Front(path) == SubSeq(path, 1, Len(path) - 1)
Last(path) == path[Len(path)]
EndsWith(path, seg) == Len(path) >= 2 /\ Last(path) = seg
\* path[:1] == '/'
StartsWithSlash(path) == Len(path) >= 2 /\ path[1] = ""
InSeq(x, seq) == \E i \in 1..Len(seq) : seq[i] = x

\* The service's badpath: empty or relative, a '.' or '..' segment, or a
\* trailing '/' on a path longer than "/".
badpath(path) ==
    \/ ~StartsWithSlash(path)
    \/ \E i \in 2..Len(path) : path[i] \in {".", ".."}
    \/ (Len(path) >= 3 /\ Last(path) = "")

\* The node _traverse reaches: empty names are skipped.
NodeOf(path) == SelectSeq(Tail(path), LAMBDA x : x # "")

\* exists(path): "BADARG" for BadArgumentsException.
exists(t, path) ==
    IF badpath(path) THEN "BADARG"
    ELSE IF NodeOf(path) \in NodeIds /\ t[NodeOf(path)].exists THEN "YES" ELSE "NO"

\* get_properties(base).get(name + ' ->'): the status of the read and the
\* link's target, NoTarget for none.
get_link(t, base, name) ==
    IF badpath(base) THEN [status |-> "BADARG", target |-> NoTarget]
    ELSE IF exists(t, base) # "YES" THEN [status |-> "NONODE", target |-> NoTarget]
    ELSE [status |-> "OK",
          target |-> IF name \in DOMAIN t[NodeOf(base)].links
                     THEN t[NodeOf(base)].links[name] ELSE NoTarget]

\* What a call of resolve gives: a path, or an exception with its argument.
Returns(path) == [status |-> "OK", path |-> path]
RaisesNoNode(path) == [status |-> "NONODE", path |-> path]
RaisesLinkLoop(seen) == [status |-> "LINKLOOP", path |-> seen]
RaisesBadArguments == [status |-> "BADARG", path |-> <<>>]
RaisesRuntimeError == [status |-> "RECURSION", path |-> <<>>]

\* Resolving.resolve(path, seen); d: the nested calls still allowed.
RECURSIVE Resolving_resolve(_, _, _, _)
Resolving_resolve(t, path, seen, d) ==
    IF d = 0 THEN RaisesRuntimeError
    ELSE IF EndsWith(path, ".") THEN Resolving_resolve(t, Front(path), <<>>, d - 1)
    ELSE IF EndsWith(path, "..")
    THEN LET base == Resolving_resolve(t, Front(path), <<>>, d - 1)
         IN IF base.status # "OK" THEN base
            ELSE IF Len(base.path) >= 2 THEN Returns(Front(base.path))
            ELSE RaisesNoNode(path)
    ELSE IF exists(t, path) = "YES" THEN Returns(path)
    ELSE IF exists(t, path) = "BADARG" /\ ~StartsWithSlash(path) THEN RaisesNoNode(path)
    ELSE IF InSeq(path, seen) THEN RaisesLinkLoop(Append(seen, path))
    ELSE LET base == Resolving_resolve(t, Front(path), seen, d - 1)
             name == Last(path)
         IN IF base.status = "NONODE" THEN RaisesNoNode(path)
            ELSE IF base.status # "OK" THEN base
            ELSE LET newpath == Append(base.path, name)
                     link == get_link(t, base.path, name)
                 IN IF exists(t, newpath) = "BADARG" THEN RaisesBadArguments
                    ELSE IF exists(t, newpath) = "YES" THEN Returns(newpath)
                    ELSE IF link.status = "BADARG" THEN RaisesBadArguments
                    ELSE IF link.status = "NONODE" \/ link.target \in {NoTarget, <<"">>}
                    THEN RaisesNoNode(path)
                    ELSE LET target == IF link.target[1] = "" THEN link.target
                                       ELSE base.path \o link.target
                             r == Resolving_resolve(t, target, Append(seen, path), d - 1)
                         IN IF r.status = "NONODE" THEN RaisesNoNode(path) ELSE r

\* The trees resolve is applied to: "/" and "/a" exist, "/b", "/a/a" and
\* "/a/b" may; "/" may carry a link named b, "/a" links named a and b.
LinkTargets ==
    {<<"", "a", "a">>, <<"", "a", "b">>, <<"", "a">>, <<"", "b">>,
     <<"b">>, <<"..", "b">>, <<"a", ".">>}
MaybeTarget == LinkTargets \cup {NoTarget}
NoLinks == [x \in {} |-> NoTarget]
LinkNode(e, links) == [exists |-> e, links |-> links]
LinkTree(eb, eaa, eab, lb, laa, lab) ==
    [n \in NodeIds |->
       CASE n = <<>> -> LinkNode(TRUE, [x \in {"b"} |-> lb])
         [] n = <<"a">> -> LinkNode(TRUE, [x \in Segs |-> IF x = "a" THEN laa ELSE lab])
         [] n = <<"b">> -> LinkNode(eb, NoLinks)
         [] n = <<"a", "a">> -> LinkNode(eaa, NoLinks)
         [] n = <<"a", "b">> -> LinkNode(eab, NoLinks)]
LinkTrees ==
    {LinkTree(eb, eaa, eab, lb, laa, lab) :
        eb \in BOOLEAN, eaa \in BOOLEAN, eab \in BOOLEAN,
        lb \in MaybeTarget, laa \in MaybeTarget, lab \in MaybeTarget}

\* The paths resolve is called with.
ResolvePaths ==
    {Slash, <<"", "a">>, <<"", "b">>, <<"", "a", "a">>, <<"", "a", "b">>,
     <<"", "b", "a">>, <<"", "a", ".">>, <<"", "a", "..">>, <<"", "a", "b", ".">>,
     <<"", "a", "b", "..">>, <<"", "a", "b", "..", "..">>, <<"", "a", "..", "b">>,
     <<"", "a", "a", "b">>, <<"a">>, <<"">>}

\* ------------------------------------------- observers behind node links

\* The same handlers over a tree with node links, where resolve may return
\* another path than the observer's.  Nodes carry a payload; "/a" carries
\* the link named b.  Observers are properties observers.
DataNode(e, links, data) == [exists |-> e, links |-> links, data |-> data]
PathAB == <<"", "a", "b">>
PathB == <<"", "b">>
LinkedPaths == {PathAB, PathB}
LinkedKeys == {<<CHANGED_EVENT, path>> : path \in LinkedPaths}
\* The targets the link "/a/b ->" is set to: none, "/b", itself, and one
\* that leads back to "/a/b" through a trailing "/.".
RewatchTargets == {NoTarget, PathB, PathAB, <<"b", ".">>}

LinkedSnapshot(t, path) == decode(t[NodeOf(path)].data)

RECURSIVE _watch_linked(_, _, _), _rewatch_linked(_, _, _),
          RewatchLoop_linked(_, _, _, _), handler_linked(_, _, _, _, _)

\* ZooKeeper._watchkey's handler, called with a connected state.
handler_linked(C, key, type, t, reraise) ==
    IF C.watches[key] = {} THEN C
    ELSE IF type = DELETED_EVENT THEN Caught(_rewatch_linked(C, key, t), reraise)
    ELSE IF exists(t, key[2]) # "YES" THEN Caught(_rewatch_linked(C, key, t), reraise)
    ELSE [C EXCEPT !.armed[key] = @ + 1,
                   !.obs = [o \in Obs |-> IF o \in C.watches[key]
                                          THEN _notify(C.obs[o], LinkedSnapshot(t, key[2]))
                                          ELSE C.obs[o]]]

\* ZooKeeper._watch: the observer's path is resolved, the observer is added
\* under the resolved path; a new key gets its watch, an old one is read.
_watch_linked(C, o, t) ==
    LET r == Resolving_resolve(t, C.obs[o].path, <<>>, MaxDepth)
    IN IF r.status # "OK" THEN [C EXCEPT !.exc = r.status]
       ELSE LET key == <<C.obs[o].kind, r.path>>
                newkey == C.watches[key] = {}
                C1 == [C EXCEPT !.obs[o].real_path = r.path,
                                !.watches = add(@, key, o)]
            IN IF newkey THEN handler_linked(C1, key, key[1], t, TRUE)
               ELSE [C1 EXCEPT !.obs[o] = _notify(@, LinkedSnapshot(t, r.path))]

\* The loop of _rewatch: NoNodeException and LinkLoop of resolve mark the
\* observer deleted; any other exception leaves the loop.
RewatchLoop_linked(C, ws, i, t) ==
    IF i > Len(ws) \/ C.exc # "none" THEN C
    ELSE LET o == ws[i]
             r == Resolving_resolve(t, C.obs[o].path, <<>>, MaxDepth)
         IN IF r.status \in {"NONODE", "LINKLOOP"}
            THEN RewatchLoop_linked([C EXCEPT !.obs[o] = _deleted(@)], ws, i + 1, t)
            ELSE IF r.status # "OK"
            THEN [C EXCEPT !.exc = r.status]
            ELSE RewatchLoop_linked(_watch_linked(C, o, t), ws, i + 1, t)

\* ZooKeeper._rewatch.
_rewatch_linked(C, key, t) ==
    RewatchLoop_linked([C EXCEPT !.watches = pop(@, key)], SeqOf(C.watches[key]), 1, t)

\* create, delete and set on the nodes "/a/b" and "/b", and set on "/a"
\* with a link; the events they raise for the data watches.
LinkedCall(meth, path, data, target) ==
    [meth |-> meth, path |-> path, data |-> data, target |-> target]
LinkedCalls ==
    {LinkedCall("create", PathAB, "ab0", NoTarget), LinkedCall("create", PathB, "b0", NoTarget),
     LinkedCall("delete", PathAB, "", NoTarget), LinkedCall("delete", PathB, "", NoTarget),
     LinkedCall("set", PathAB, "ab1", NoTarget)}
    \cup {LinkedCall("set", <<"", "a">>, "", x) : x \in RewatchTargets}

ZkLinked(t, c) ==
    LET n == NodeOf(c.path)
    IN CASE c.meth = "create" ->
              IF t[n].exists THEN Res("NODEEXISTS", t, <<>>)
              ELSE Res("OK", [t EXCEPT ![n] = DataNode(TRUE, NoLinks, c.data)], <<>>)
         [] c.meth = "delete" ->
              IF ~t[n].exists THEN Res("NONODE", t, <<>>)
              ELSE Res("OK", [t EXCEPT ![n] = DataNode(FALSE, NoLinks, "")],
                       << Ev(CHANGED_EVENT, c.path, DELETED_EVENT) >>)
         [] c.meth = "set" ->
              IF ~t[n].exists THEN Res("NONODE", t, <<>>)
              ELSE IF n = <<"a">>
              THEN Res("OK", [t EXCEPT ![n].links = [x \in {"b"} |-> c.target]], <<>>)
              ELSE Res("OK", [t EXCEPT ![n].data = c.data],
                       << Ev(CHANGED_EVENT, c.path, CHANGED_EVENT) >>)

\* --------------------------------------------------------------- resolver

\* resolve(path) on the user thread of a connected session.
Resolve(S) ==
    /\ \E path \in S :
         LET r == Resolving_resolve(tree, path, <<>>, MaxDepth)
         IN last' = [op |-> "resolve", status |-> r.status, path |-> path,
                     result |-> r.path]
    /\ UNCHANGED <<tree, handle, low, connected, ephemeral, watches, obs, armed,
                   pending, ctor, inflight>>

\* --------------------------------------- observing behind node links

\* create, delete or set on the tree with node links.
LinkedLocalCall(S) ==
    /\ \E c \in S :
         LET r == ZkLinked(tree, c)
             f == Fire(armed, pending, r.events)
         IN /\ tree' = r.tree
            /\ armed' = f.armed
            /\ pending' = f.pending
    /\ last' = NoCall
    /\ UNCHANGED <<handle, low, connected, ephemeral, watches, obs, ctor, inflight>>

\* properties(path): NodeInfo.__init__ with session._watch(self); the object
\* of a constructor that raised is never bound.
LinkedCtor(P) ==
    /\ FreeSlots # {}
    /\ \E path \in P :
         LET o == FirstFree
             r == Resolving_resolve(tree, path, <<>>, MaxDepth)
             key == <<CHANGED_EVENT, r.path>>
             C == Ctx(watches, [obs EXCEPT ![o] = NewObs(CHANGED_EVENT, path)],
                      armed, pending)
             D == _watch_linked(C, o, tree)
         IN /\ r.status = "OK"
            /\ watches[key] = {} => armed[key] + PendingCount(pending, key) < MaxArmed
            /\ watches' = D.watches
            /\ obs' = D.obs
            /\ armed' = D.armed
            /\ pending' = D.pending
    /\ last' = NoCall
    /\ UNCHANGED <<tree, handle, low, connected, ephemeral, ctor, inflight>>

\* A watch event reaches its handler (state connected, reraise false).
LinkedDeliver ==
    /\ pending # <<>>
    /\ LET e == Head(pending)
           D == handler_linked(Ctx(watches, obs, armed, Tail(pending)), e.key, e.type,
                               tree, FALSE)
       IN /\ watches' = D.watches
          /\ obs' = D.obs
          /\ armed' = D.armed
          /\ pending' = D.pending
          /\ last' = [op |-> "event", status |-> IF D.exc = "none" THEN "OK" ELSE D.exc,
                       key |-> e.key]
    /\ UNCHANGED <<tree, handle, low, connected, ephemeral, ctor, inflight>>

\* ----------------------------------------------------------- property links

\* Properties observers over the nodes "/a" and "/b".  A node's data is a
\* dictionary; the value of a key that ends in " =>" is kept as the tokens
\* of data[name].strip().split(): a path and the fields after it.
PathA == <<"", "a">>
PathC == <<"", "c">>
PropPaths == {PathA, PathB}
PropKeys == {<<CHANGED_EVENT, path>> : path \in PropPaths}
Fields == {"x", "y"}
\* key + ' =>', name.endswith(' =>') and name[:-3].
LinkKeyOf(key) == IF key = "x" THEN "x =>" ELSE "y =>"
IsLinkKey(name) == name \in {"x =>", "y =>"}
BaseName(name) == IF name = "x =>" THEN "x" ELSE "y"

NoProps == [k \in {} |-> ""]
NoLinked == [p \in {} |-> NoProps]

\* encode(props) and decode(sdata) of Properties.
encode_props(props) ==
    IF DOMAIN props = {"string_value"} THEN [text |-> props["string_value"]]
    ELSE IF props # NoProps THEN [json |-> props]
    ELSE [text |-> ""]
decode_props(sdata) ==
    IF "json" \in DOMAIN sdata THEN sdata.json
    ELSE IF sdata.text = "" THEN NoProps
    ELSE [k \in {"string_value"} |-> sdata.text]

\* A Properties object: NodeInfo's attributes and _linked_properties, the
\* linked objects by resolved path (each has the notify of its owner as its
\* callback).
NewProps(path) ==
    [path |-> path, real_path |-> path, data |-> NoProps, deleted |-> FALSE,
     linked |-> NoLinked]

\* What a method gives: a value or an exception, and the object after it.
NoExc == [type |-> "none"]
Ok(value, self) == [status |-> "OK", value |-> value, exc |-> NoExc, self |-> self]
Raised(exc, self) == [status |-> "RAISED", value |-> "", exc |-> exc, self |-> self]
ResolveError(r) == [type |-> r.status, path |-> r.path]
RuntimeError == [type |-> "RECURSION"]
\* BadPropertyLink(v, 'in %r: %r' % (key + ' =>', self.data[key + ' =>'])).
BadPropertyLink(v, key, link) ==
    [type |-> "BadPropertyLink", cause |-> v, key |-> LinkKeyOf(key), link |-> link]
\* ValueError("Bad property link", name, data[name], v).
BadLinkError(name, link, v) ==
    [type |-> "ValueError", name |-> name, link |-> link, cause |-> v]
\* path = link.pop(0), made absolute with self.path + '/' + path.
LinkPath(self, link) ==
    IF StartsWithSlash(link[1]) THEN link[1] ELSE self.path \o link[1]

RECURSIVE properties(_, _, _), _setData(_, _, _, _, _), SetDataLoop(_, _, _, _, _, _, _, _),
          _setup_link(_, _, _, _), __getitem__(_, _, _, _, _)

\* The return of __getitem__: properties.__getitem__(name, seen) has given
\* g; the except clause wraps what it raised.  linked: the object's map
\* after _setup_link.
GetItemReturn(self, key, link, path, linked, g) ==
    LET self2 == [self EXCEPT !.linked = (path :> g.self) @@ linked]
    IN IF g.status # "OK" THEN Raised(BadPropertyLink(g.exc, key, link), self2)
       ELSE Ok(g.value, self2)

\* ... from "properties = self._linked_properties.get(path)" on, su being
\* what the map has or what _setup_link gave.
GetItemLinked(t, self, key, link, seen, path, su, d) ==
    IF su.status # "OK"
    THEN Raised(BadPropertyLink(su.exc, key, link), [self EXCEPT !.linked = su.self])
    ELSE GetItemReturn(self, key, link, path, su.self,
                       __getitem__(t, su.value, IF Len(link) = 2 THEN link[2] ELSE key,
                                   Append(seen, path), d - 1))

\* __getitem__ without "if path in seen".
GetItemResolved_unseen(t, self, key, link, seen, r, d) ==
    IF r.status # "OK" THEN Raised(BadPropertyLink(ResolveError(r), key, link), self)
    ELSE GetItemLinked(t, self, key, link, seen, r.path,
                       _setup_link(t, self.linked, r.path, d - 1), d)

\* ... from "path = self.session.resolve(path)" on, r being what resolve gave.
GetItemResolved(t, self, key, link, seen, r, d) ==
    IF r.status # "OK" THEN Raised(BadPropertyLink(ResolveError(r), key, link), self)
    ELSE IF InSeq(r.path, seen)
    THEN Raised(BadPropertyLink([type |-> "LinkLoop", chain |-> Append(seen, r.path)],
                                key, link), self)
    ELSE GetItemLinked(t, self, key, link, seen, r.path,
                       _setup_link(t, self.linked, r.path, d - 1), d)

\* ... the try block, link being the tokens of self.data[key + ' =>'].
GetItemLink(t, self, key, link, seen, d) ==
    IF Len(link) > 2 THEN Raised(BadPropertyLink([type |-> "ValueError"], key, link), self)
    ELSE IF Len(link) = 0
    THEN Raised(BadPropertyLink([type |-> "IndexError"], key, link), self)
    ELSE GetItemResolved(t, self, key, link, seen,
                         Resolving_resolve(t, LinkPath(self, link), <<>>, d - 1), d)

\* Properties.__getitem__(key, seen); d: the nested calls the interpreter
\* still allows.
__getitem__(t, self, key, seen, d) ==
    IF d = 0 THEN Raised(RuntimeError, self)
    ELSE IF key \in DOMAIN self.data THEN Ok(self.data[key], self)
    ELSE IF LinkKeyOf(key) \notin DOMAIN self.data THEN Raised([type |-> "KeyError"], self)
    ELSE GetItemLink(t, self, key, self.data[LinkKeyOf(key)], seen, d)

\* The end of _setup_link, c being what session.properties(path) gave.
SetupLinkNew(linked, path, c) ==
    IF c.status # "OK" THEN Raised(c.exc, linked)
    ELSE Ok(c.self, (path :> c.self) @@ linked)

\* Properties._setup_link(path, _linked_properties): the object the map has
\* for the path, else a new session.properties(path), put into the map.
\* Given as value: the linked object; as self: the map.
_setup_link(t, linked, path, d) ==
    IF path \in DOMAIN linked THEN Ok(linked[path], linked)
    ELSE SetupLinkNew(linked, path, properties(t, path, d))

\* The try block of _setData for one name: "properties[...]" with su from
\* _setup_link, ...
SetDataLinked(t, name, link, path, su, d) ==
    IF su.status # "OK" THEN su
    ELSE LET g == __getitem__(t, su.value,
                              IF Len(link) = 2 THEN link[2] ELSE BaseName(name), <<>>, d - 1)
         IN [g EXCEPT !.self = (path :> g.self) @@ su.self]

\* ... the call of _setup_link with r from session.resolve(path), ...
SetDataResolved(t, name, link, local, r, d) ==
    IF r.status # "OK" THEN Raised(ResolveError(r), local)
    ELSE SetDataLinked(t, name, link, r.path, _setup_link(t, local, r.path, d - 1), d)

\* ... and its start, link being the tokens of data[name]; local: the new
\* _linked_properties.
SetDataLink(t, self, name, link, local, d) ==
    IF ~(1 <= Len(link) /\ Len(link) <= 2) THEN Raised([type |-> "ValueError"], local)
    ELSE SetDataResolved(t, name, link, local,
                         Resolving_resolve(t, LinkPath(self, link), <<>>, d - 1), d)

\* The except clause of _setData: the error is logged, or a ValueError
\* raised.
SetDataExcept(t, self, data, names, i, handle_errors, d, step) ==
    IF step.status = "OK" \/ handle_errors
    THEN SetDataLoop(t, self, data, names, i + 1, step.self, handle_errors, d)
    ELSE Raised(BadLinkError(names[i], data[names[i]], step.exc), step.self)

\* The loop of _setData over names, the keys of data that end in ' =>' and
\* whose name[:-3] is not in data.
SetDataLoop(t, self, data, names, i, local, handle_errors, d) ==
    IF i > Len(names) THEN Ok("", local)
    ELSE SetDataExcept(t, self, data, names, i, handle_errors, d,
                       SetDataLink(t, self, names[i], data[names[i]], local, d))

\* _setData when it assigns self.data before the links are processed.
SetDataAssign_first(self, data, loop) ==
    IF loop.status # "OK" THEN Raised(loop.exc, [self EXCEPT !.data = data])
    ELSE Ok("", [self EXCEPT !.data = data, !.linked = loop.self])

\* The end of _setData: self.data and self._linked_properties are assigned
\* only after all links were processed.
SetDataAssign(self, data, loop) ==
    IF loop.status # "OK" THEN Raised(loop.exc, self)
    ELSE Ok("", [self EXCEPT !.data = data, !.linked = loop.self])

\* Properties._setData(data, handle_errors).
_setData(t, self, data, handle_errors, d) ==
    IF d = 0 THEN Raised(RuntimeError, self)
    ELSE SetDataAssign(self, data,
                       SetDataLoop(t, self, data,
                                   SeqOf({name \in DOMAIN data :
                                             IsLinkKey(name) /\ BaseName(name) \notin DOMAIN data}),
                                   1, NoLinked, handle_errors, d))

\* NodeInfo.__init__ from session._watch(self) on, r being what
\* self.resolve(watch.path) gave: the first _notify calls setData, which
\* handles the errors of the links.
NodeInfo_watch(t, path, r, d) ==
    IF r.status # "OK" THEN Raised(ResolveError(r), NewProps(path))
    ELSE _setData(t, [NewProps(path) EXCEPT !.real_path = r.path],
                  decode_props(t[NodeOf(r.path)].data), TRUE, d - 1)

\* session.properties(path): Properties.__init__.
properties(t, path, d) ==
    IF d = 0 THEN Raised(RuntimeError, NewProps(path))
    ELSE NodeInfo_watch(t, path, Resolving_resolve(t, path, <<>>, d - 1), d)

\* The real paths under which the objects of a Properties object are in
\* session.watches: the object and its linked objects, those popped by
\* _rewatch left out.  The registry holds weak references; a linked object
\* that its owner let go of is taken as collected at once.
RECURSIVE RegisteredPaths(_)
RegisteredPaths(P) ==
    (IF P.deleted THEN {} ELSE {P.real_path})
    \cup UNION {RegisteredPaths(P.linked[q]) : q \in DOMAIN P.linked}

\* The handler's "for watch in self.watches.watches(key): watch._notify(v)"
\* seen from one object: an object of the key is given the data by setData
\* and calls its callbacks; the notify of its owner finds it in the owner's
\* map and calls the owner's _notify(None).  Given: the object after it and
\* whether its callbacks were called.
RECURSIVE NotifyLinked(_, _, _, _)
NotifyLinked(t, P, path, d) ==
    IF ~P.deleted /\ P.real_path = path
    THEN [self |-> _setData(t, P, decode_props(t[NodeOf(path)].data), TRUE, d).self,
          fired |-> TRUE]
    ELSE LET kids == [q \in DOMAIN P.linked |-> NotifyLinked(t, P.linked[q], path, d)]
         IN [self |-> [P EXCEPT !.linked = [q \in DOMAIN kids |-> kids[q].self]],
             fired |-> \E q \in DOMAIN kids : kids[q].fired]

\* _rewatch of a key whose path does not resolve, seen from one object: an
\* object of the key has _deleted called, which calls the notify of its
\* owner without arguments: the owner tries self._setData(self.data), and
\* _deleted swallows what that raises.  selfFirst: the order in which the
\* registry gives an object and an object linked below it.
RECURSIVE DeleteLinked(_, _, _, _, _)
DeleteLinked(t, P, path, selfFirst, d) ==
    LET mine == ~P.deleted /\ P.real_path = path
        kids == [q \in DOMAIN P.linked |-> DeleteLinked(t, P.linked[q], path, selfFirst, d)]
        P1 == [P EXCEPT !.linked = [q \in DOMAIN kids |-> kids[q].self],
                        !.data = IF mine /\ selfFirst THEN NoProps ELSE @]
        retry == _setData(t, P1, P1.data, FALSE, d)
        P2 == IF (\E q \in DOMAIN kids : kids[q].gone) /\ retry.status = "OK"
              THEN retry.self ELSE P1
    IN IF mine THEN [self |-> [P2 EXCEPT !.deleted = TRUE, !.data = NoProps], gone |-> TRUE]
       ELSE [self |-> P2, gone |-> FALSE]

\* The handlers armed after a step: _watch arms one through _watchkey for
\* every key it adds to the registry.
ArmNew(a, old, new) ==
    [k \in DOMAIN a |-> IF k[2] \in RegisteredPaths(new) \ old THEN a[k] + 1 ELSE a[k]]
ArmedOK(a, p) == \A k \in DOMAIN a : a[k] + PendingCount(p, k) <= MaxArmed
RegistryOf(P) == [k \in PropKeys |-> IF k[2] \in RegisteredPaths(P) THEN {0} ELSE {}]

\* The data of the nodes and of the calls.
NoLink == <<"none">>
PropDict(x, link) ==
    [k \in (IF x = "" THEN {} ELSE {"x"}) \cup (IF link = NoLink THEN {} ELSE {"x =>"})
       |-> IF k = "x" THEN x ELSE link]
\* Links: to "/b" (its x), to "../b y", no tokens, three tokens, a node
\* that is not there.
GoodLinks == {<<PathB>>, << <<"..", "b">>, "y" >>}
BadLinks == {<<>>, <<PathB, "x", "x">>, <<PathC>>}
SetDicts ==
    {PropDict(x, NoLink) : x \in {"", "v1"}}
    \cup {PropDict("", l) : l \in GoodLinks \cup BadLinks}
    \cup {PropDict("v1", l) : l \in {<<PathB>>, <<>>}}
UpdateDicts == {PropDict("v2", NoLink), PropDict("", <<PathB>>), PropDict("", <<PathC>>)}
\* What another session stores at "/a" and at "/b".
OtherDictsA ==
    {PropDict("", <<PathB>>), PropDict("", <<>>), PropDict("v1", <<PathB>>),
     PropDict("v1", NoLink)}
OtherDictsB ==
    {PropDict("v1", NoLink), [k \in {"x", "y"} |-> "v2"], PropDict("", <<PathA>>)}
\* d.update(data).
DictUpdate(d, data) ==
    [k \in (DOMAIN d) \cup (DOMAIN data) |-> IF k \in DOMAIN data THEN data[k] ELSE d[k]]

PropsCall(meth, path, data) == [meth |-> meth, path |-> path, data |-> data]
PropsCallsA == {PropsCall("set", PathA, encode_props(x)) : x \in OtherDictsA}
PropsCallsB ==
    {PropsCall(m, PathB, encode_props(x)) : m \in {"set", "create"}, x \in OtherDictsB}
    \cup {PropsCall("delete", PathB, encode_props(NoProps))}
ZkProps(t, c) ==
    LET n == NodeOf(c.path)
    IN CASE c.meth = "create" ->
              IF t[n].exists THEN Res("NODEEXISTS", t, <<>>)
              ELSE Res("OK", [t EXCEPT ![n] = DataNode(TRUE, NoLinks, c.data)], <<>>)
         [] c.meth = "delete" ->
              IF ~t[n].exists THEN Res("NONODE", t, <<>>)
              ELSE Res("OK", [t EXCEPT ![n] = DataNode(FALSE, NoLinks, encode_props(NoProps))],
                       << Ev(CHANGED_EVENT, c.path, DELETED_EVENT) >>)
         [] c.meth = "set" ->
              IF ~t[n].exists THEN Res("NONODE", t, <<>>)
              ELSE Res("OK", [t EXCEPT ![n].data = c.data],
                       << Ev(CHANGED_EVENT, c.path, CHANGED_EVENT) >>)

\* Another session, or this one through the plain calls, changes a node.
PropsLocalCall(S) ==
    /\ \E c \in S :
         LET r == ZkProps(tree, c)
             f == Fire(armed, pending, r.events)
         IN /\ r.status = "OK"
            /\ tree' = r.tree
            /\ armed' = f.armed
            /\ pending' = f.pending
            /\ last' = [op |-> "other", status |-> r.status, path |-> c.path]
    /\ UNCHANGED <<handle, low, connected, ephemeral, watches, obs, ctor, inflight>>

\* The object, the registry and the armed handlers after a call.
PropsNow(P, a) ==
    /\ ArmedOK(a, pending')
    /\ obs' = [obs EXCEPT !.made = TRUE, !.props = P]
    /\ watches' = RegistryOf(P)
    /\ armed' = a

\* zk.properties("/a"), the object the user holds.
PropsBound(c) == c.status = "OK" /\ PropsNow(c.self, ArmNew(armed, {}, c.self))
PropsCtor ==
    /\ ~obs.made
    /\ pending' = pending
    /\ PropsBound(properties(tree, PathA, MaxDepth))
    /\ last' = NoCall
    /\ UNCHANGED <<tree, handle, low, connected, ephemeral, ctor, inflight>>

\* NodeInfo.__call__(func) with a callback that takes the object.
PropsSubscribe ==
    /\ obs.made
    /\ obs.callbacks = {}
    /\ obs' = [obs EXCEPT !.callbacks = {"good"}]
    /\ last' = [op |-> "observer", status |-> "OK", cb |-> "good"]
    /\ UNCHANGED <<tree, handle, low, connected, ephemeral, watches, armed, pending, ctor,
                   inflight>>

\* The end of Properties._set, s being what self._setData(data) gave:
\* self.session._set(self.path, encode(data)).
Properties_store(t, P, a, p, data, s, r) ==
    IF s.status # "OK"
    THEN [props |-> s.self, tree |-> t, armed |-> a, pending |-> p,
          last |-> [op |-> "set", status |-> "RAISED", exc |-> s.exc, data |-> data]]
    ELSE LET f == Fire(ArmNew(a, RegisteredPaths(P), s.self), p, r.events)
         IN [props |-> s.self, tree |-> r.tree, armed |-> f.armed, pending |-> f.pending,
             last |-> [op |-> "set", status |-> r.status, exc |-> NoExc, data |-> data]]

\* Properties._set(data).  Given: the object, the store and the watches
\* after the call, and what the call raised.
Properties_set(t, P, a, p, data) ==
    Properties_store(t, P, a, p, data, _setData(t, P, data, FALSE, MaxDepth),
                     ZkProps(t, PropsCall("set", P.path, encode_props(data))))

PropsWritten(op, w) ==
    /\ tree' = w.tree
    /\ pending' = w.pending
    /\ PropsNow(w.props, w.armed)
    /\ last' = [w.last EXCEPT !.op = op]

\* Properties.set(data).
PropsSet(S) ==
    /\ obs.made
    /\ \E data \in S :
         PropsWritten("set", Properties_set(tree, obs.props, armed, pending, data))
    /\ UNCHANGED <<handle, low, connected, ephemeral, ctor, inflight>>

\* Properties.update(data): d = self.data.copy(); d.update(data).
PropsUpdate(S) ==
    /\ obs.made
    /\ \E data \in S :
         PropsWritten("update", Properties_set(tree, obs.props, armed, pending,
                                               DictUpdate(obs.props.data, data)))
    /\ UNCHANGED <<handle, low, connected, ephemeral, ctor, inflight>>

\* properties[key].
PropsGot(key, g) ==
    /\ PropsNow(g.self, ArmNew(armed, RegisteredPaths(obs.props), g.self))
    /\ last' = [op |-> "get", status |-> g.status, exc |-> g.exc, key |-> key,
                 value |-> g.value]
PropsGet(K) ==
    /\ obs.made
    /\ pending' = pending
    /\ \E key \in K : PropsGot(key, __getitem__(tree, obs.props, key, <<>>, MaxDepth))
    /\ UNCHANGED <<tree, handle, low, connected, ephemeral, ctor, inflight>>

\* The handler of a watch event (state connected): nothing for a key that
\* is not in the registry; else the node is read and the handler armed
\* again, or _rewatch finds that the path does not resolve.  Given: the
\* object and whether its callbacks were called.
PropsHandler(t, P, path, here, selfFirst) ==
    IF ~here THEN [self |-> P, fired |-> FALSE]
    ELSE IF t[NodeOf(path)].exists THEN NotifyLinked(t, P, path, MaxDepth)
    ELSE [self |-> DeleteLinked(t, P, path, selfFirst, MaxDepth).self, fired |-> FALSE]

PropsHandled(e, here, h) ==
    /\ PropsNow(h.self,
                ArmNew([armed EXCEPT ![e.key] =
                           IF here /\ tree[NodeOf(e.key[2])].exists THEN @ + 1 ELSE @],
                       RegisteredPaths(obs.props), h.self))
    /\ last' = [op |-> "event", status |-> "OK", key |-> e.key,
                 fired |-> IF h.fired THEN obs.callbacks ELSE {}]

\* A watch event reaches its handler.
PropsDeliver ==
    /\ pending # <<>>
    /\ obs.made
    /\ pending' = Tail(pending)
    /\ \E selfFirst \in BOOLEAN :
         PropsHandled(Head(pending), Head(pending).key[2] \in RegisteredPaths(obs.props),
                      PropsHandler(tree, obs.props, Head(pending).key[2],
                                   Head(pending).key[2] \in RegisteredPaths(obs.props),
                                   selfFirst))
    /\ UNCHANGED <<tree, handle, low, connected, ephemeral, ctor, inflight>>

\* --------------------------------------------------------- specifications

\* The whole system.
Next ==
    \/ Create(Calls, TRUE) \/ Delete(Calls, TRUE) \/ Set(Calls, TRUE)
    \/ SetAcl(Calls, TRUE) \/ AsyncCall(Calls) \/ Complete
    \/ CtorBegin(Keys, MaxObs) \/ CtorCheck \/ CtorRead \/ Subscribe(CBs) \/ Drop
    \/ Deliver \/ Disconnect \/ Reconnect \/ Expire \/ Recover \/ Close
    \/ Other(OtherCalls)

Spec == Init /\ [][Next]_vars

\* Bookkeeping of the remembered ephemerals: synchronous and asynchronous
\* calls, every session event; no observers.  Nodes are created with "d0" and
\* the open ACL, changed to "d1" and the read ACL.
BookCalls ==
    {x \in Calls :
        \/ x.meth = "create" /\ x.data = "d0" /\ x.acl = OPEN_ACL_UNSAFE
        \/ x.meth = "delete"
        \/ x.meth = "set" /\ x.data = "d1" /\ ~x.stale
        \/ x.meth = "set_acl" /\ x.acl = READ_ACL_UNSAFE /\ ~x.stale}
\* Requests made asynchronously, and the other session's calls: on one path.
AsyncCalls == {x \in BookCalls : x.path = "/e" /\ ~x.stale /\ x.meth # "set_acl"
                                 /\ (x.meth = "create" => x.flags = EPHEMERAL)}
BookOtherCalls == {x \in OtherCalls \cap BookCalls : x.path = "/e"}

NextBook ==
    \/ Create(BookCalls, TRUE) \/ Delete(BookCalls, TRUE) \/ Set(BookCalls, TRUE)
    \/ SetAcl(BookCalls, TRUE) \/ AsyncCall(AsyncCalls) \/ Complete
    \/ Disconnect \/ Reconnect \/ Expire \/ Recover \/ Close
    \/ Other(BookOtherCalls)

SpecBook == Init /\ [][NextBook]_vars

\* Session recovery: ephemeral and persistent nodes of one payload and ACL,
\* observers without callbacks.
RecoveryCalls == {x \in Calls : x.meth \in {"create", "delete"} /\ x.data = "d0"
                                /\ x.acl = OPEN_ACL_UNSAFE /\ ~x.stale}

RecoveryKeys == {<<CHILD_EVENT, Root>>, <<CHANGED_EVENT, "/e">>}

NextRecovery ==
    \/ Create(RecoveryCalls, FALSE) \/ Delete(RecoveryCalls, FALSE)
    \/ CtorBegin(RecoveryKeys, MaxObs) \/ CtorCheck \/ CtorRead
    \/ Deliver \/ Disconnect \/ Reconnect \/ Expire \/ Recover
    \/ Other(OtherCalls \cap RecoveryCalls)

SpecRecovery == Init /\ [][NextRecovery]_vars

\* Observers of the root's children and of one node's data, without callbacks.
ObserveCalls == {x \in Calls : x.path = "/e" /\ x.acl = OPEN_ACL_UNSAFE /\ x.flags = {}
                               /\ ~x.stale /\ x.meth # "set_acl"}
ObserveKeys == {<<CHILD_EVENT, Root>>, <<CHANGED_EVENT, "/e">>}

NextObserve ==
    \/ Create(ObserveCalls, FALSE) \/ Delete(ObserveCalls, FALSE) \/ Set(ObserveCalls, FALSE)
    \/ CtorBegin(ObserveKeys, MaxObs) \/ CtorCheck \/ CtorRead \/ Drop
    \/ Deliver \/ Disconnect \/ Reconnect \/ Expire \/ Recover
    \/ Other(OtherCalls \cap ObserveCalls)

SpecObserve == Init /\ [][NextObserve]_vars

\* Observers of one node's data with callbacks that return and that raise;
\* no other session.
CallbackKeys == {<<CHANGED_EVENT, "/e">>}
FirstCallCBs == {"good", "bad"}

NextCallback ==
    \/ Create(ObserveCalls, FALSE) \/ Delete(ObserveCalls, FALSE) \/ Set(ObserveCalls, FALSE)
    \/ CtorBegin(CallbackKeys, MaxObs) \/ CtorCheck \/ CtorRead \/ Subscribe(FirstCallCBs)
    \/ Drop \/ Deliver \/ Disconnect \/ Reconnect \/ Expire \/ Recover

SpecCallback == Init /\ [][NextCallback]_vars

\* Observers of one node's data with a callback that returns and one that
\* raises when it is notified; no session expiry.
NotifyCBs == {"good", "late"}

NextNotify ==
    \/ Create(ObserveCalls, FALSE) \/ Delete(ObserveCalls, FALSE) \/ Set(ObserveCalls, FALSE)
    \/ CtorBegin(CallbackKeys, MaxObs) \/ CtorCheck \/ CtorRead \/ Subscribe(NotifyCBs)
    \/ Drop \/ Deliver \/ Disconnect \/ Reconnect

SpecNotify == Init /\ [][NextNotify]_vars

\* Observers of one node's data with a callback that requires its argument
\* and one whose argument is optional; no session expiry.
DeletedCBs == {"good", "opt"}

NextDeleted ==
    \/ Create(ObserveCalls, FALSE) \/ Delete(ObserveCalls, FALSE) \/ Set(ObserveCalls, FALSE)
    \/ CtorBegin(CallbackKeys, MaxObs) \/ CtorCheck \/ CtorRead \/ Subscribe(DeletedCBs)
    \/ Drop \/ Deliver \/ Disconnect \/ Reconnect

SpecDeleted == Init /\ [][NextDeleted]_vars

\* resolve applied to every path of ResolvePaths on every tree of LinkTrees.
InitResolve ==
    /\ tree \in LinkTrees
    /\ handle = Handle
    /\ low = CONNECTED_STATE
    /\ connected = TRUE
    /\ ephemeral = [p \in Names |-> NoEntry]
    /\ watches = [k \in Keys |-> {}]
    /\ obs = [o \in Obs |-> FreeObs]
    /\ armed = [k \in Keys |-> 0]
    /\ pending = <<>>
    /\ ctor = Idle
    /\ inflight = <<>>
    /\ last = NoCall

NextResolve == Resolve(ResolvePaths)

SpecResolve == InitResolve /\ [][NextResolve]_vars

\* Observers of "/a/b" and "/b" while nodes are deleted and the link
\* "/a/b ->" is rewritten; one callback with an optional argument.
InitRewatch ==
    /\ tree = [n \in NodeIds |->
                 IF n = <<>> THEN DataNode(TRUE, NoLinks, "")
                 ELSE IF n = <<"a">> THEN DataNode(TRUE, [x \in {"b"} |-> NoTarget], "")
                 ELSE DataNode(FALSE, NoLinks, "")]
    /\ handle = Handle
    /\ low = CONNECTED_STATE
    /\ connected = TRUE
    /\ ephemeral = [p \in Names |-> NoEntry]
    /\ watches = [k \in LinkedKeys |-> {}]
    /\ obs = [o \in Obs |-> FreeObs]
    /\ armed = [k \in LinkedKeys |-> 0]
    /\ pending = <<>>
    /\ ctor = Idle
    /\ inflight = <<>>
    /\ last = NoCall

RewatchCBs == {"opt"}

NextRewatch ==
    \/ LinkedLocalCall(LinkedCalls) \/ LinkedCtor(LinkedPaths) \/ Subscribe(RewatchCBs)
    \/ LinkedDeliver

SpecRewatch == InitRewatch /\ [][NextRewatch]_vars

\* Property links: the nodes "/a" and "/b", a Properties object of "/a".
InitProps ==
    /\ tree = [n \in NodeIds |->
                 IF n = <<>> THEN DataNode(TRUE, NoLinks, encode_props(NoProps))
                 ELSE IF n \in {<<"a">>, <<"b">>}
                 THEN DataNode(TRUE, NoLinks, encode_props(PropDict("v1", NoLink)))
                 ELSE DataNode(FALSE, NoLinks, encode_props(NoProps))]
    /\ handle = Handle
    /\ low = CONNECTED_STATE
    /\ connected = TRUE
    /\ ephemeral = [p \in Names |-> NoEntry]
    /\ watches = [k \in PropKeys |-> {}]
    /\ obs = [made |-> FALSE, callbacks |-> {}, props |-> NewProps(PathA)]
    /\ armed = [k \in PropKeys |-> 0]
    /\ pending = <<>>
    /\ ctor = Idle
    /\ inflight = <<>>
    /\ last = NoCall
\* Writes through the object.
NextPropsSet ==
    \/ PropsLocalCall(PropsCallsB) \/ PropsCtor \/ PropsSet(SetDicts)
    \/ PropsUpdate(UpdateDicts) \/ PropsDeliver
SpecPropsSet == InitProps /\ [][NextPropsSet]_vars
\* Changes of the linked node with a callback subscribed.
NextPropsNotify ==
    \/ PropsLocalCall(PropsCallsA \cup PropsCallsB) \/ PropsCtor \/ PropsSubscribe
    \/ PropsDeliver
SpecPropsNotify == InitProps /\ [][NextPropsNotify]_vars
\* Lookups through the object.
NextPropsGet ==
    \/ PropsLocalCall(PropsCallsA \cup PropsCallsB) \/ PropsCtor \/ PropsGet(Fields)
    \/ PropsDeliver
SpecPropsGet == InitProps /\ [][NextPropsGet]_vars

\* ------------------------------------------------------- session recovery

\* The step of watch_session that handles the CONNECTED event of a new session.
Recovering == handle = None /\ handle' # None
\* ... while the user thread is in no constructor and every registered
\* observer has had its first snapshot.
QuietRecovery ==
    /\ Recovering
    /\ ctor.pc = "idle"
    /\ \A o \in Registered(watches) : obs[o].data # NoData

\* An observer's key, and whether its watch is armed or has fired and waits
\* for its handler.
KeyOf(rec) == <<rec.kind, rec.real_path>>
Watched(a, p, key) == a[key] + PendingCount(p, key) >= 1

\* C1: after a session expired, the CONNECTED event of the new session makes
\* every remembered ephemeral path exist again as an ephemeral node with the
\* remembered data and ACL.  Stated for the recoveries in which no remembered
\* path is taken in the store, so that no create can be refused.
C1_EphemeralsRestored ==
    [][(QuietRecovery /\ \A p \in Names : ephemeral[p].present => ~tree[p].exists)
       => \A p \in Names : ephemeral[p].present =>
             /\ tree'[p].exists
             /\ tree'[p].eph
             /\ tree'[p].data = ephemeral[p].data
             /\ tree'[p].acl = ephemeral[p].acl]_vars

\* C2: every observer registered when the session expired, whose node is
\* still there, is registered again after the CONNECTED event of the new
\* session, with the watch of its key armed (or fired and not yet handled).
C2_ObserversPreserved ==
    [][QuietRecovery
       => \A o \in Registered(watches) :
             Exists(tree, obs[o].path) =>
                /\ o \in watches'[KeyOf(obs'[o])]
                /\ Watched(armed', pending', KeyOf(obs'[o]))]_vars

\* C3: when another session changed the store between the expiry and the
\* CONNECTED event of the new session, every observer whose node is still
\* there holds the store's value after that event, unless a watch event for
\* its key is still to be handled.
C3_DisconnectedChangesSeen ==
    [][(QuietRecovery /\ last.op = "other")
       => \A o \in Registered(watches) :
             Exists(tree, obs[o].path) =>
                \/ obs'[o].data = Snapshot(tree', KeyOf(obs'[o]))
                \/ PendingCount(pending', KeyOf(obs'[o])) >= 1]_vars

\* C4: in a recovery the remembered ephemerals are re-created before the
\* watches are re-established: the value a re-armed observer of the root's
\* children has read holds every ephemeral node the recovery restored.
C4_EphemeralsBeforeWatches ==
    [][QuietRecovery
       => \A o \in watches'[<<CHILD_EVENT, Root>>] :
             {p \in Names : ephemeral[p].present /\ ~tree[p].exists /\ tree'[p].exists}
                \subseteq obs'[o].data.children]_vars

\* C5: in a recovery without observers, a remembered ephemeral whose create
\* is refused stops nothing: every remembered path that was free is created
\* and the session becomes connected.
C5_BestEffortRestoration ==
    [][(QuietRecovery /\ Registered(watches) = {})
       => /\ connected'
          /\ \A p \in Names : (ephemeral[p].present /\ ~tree[p].exists) => tree'[p].exists]_vars

\* ------------------------------------------------------------ bookkeeping

\* The step was a user's call or a completion, judged by its outcome in last'.
Answered == last'.op \in {"call", "completion"}
Succeeded == Answered /\ last'.status = "OK"
Failed == Answered /\ last'.status # "OK"

\* C6: the remembered-ephemerals map changes only in a step whose remote
\* operation succeeded; a synchronous call that raises and a completion with a
\* non-OK status leave it as it was, and the service's answer to a request
\* reaches the user's completion with the request it belongs to.
C6_BookkeepingAfterSuccess ==
    [][/\ Failed => ephemeral' = ephemeral
       /\ ephemeral' # ephemeral => Succeeded
       /\ (handle' # None /\ inflight # <<>> /\ inflight' = Tail(inflight))
             => (last'.op = "completion" /\ last'.call = Head(inflight))]_vars

\* The service answered a request with a non-OK status, and the bookkeeping
\* of the request would have changed the map.
C6_FailedCompletion ==
    /\ handle # None
    /\ last.op = "completion"
    /\ last.status # "OK"
    /\ post(ephemeral, last.call) # ephemeral

\* What the map holds for a path after a successful local call, in the words
\* of C7: a create with the EPHEMERAL flag enters the path; a delete removes
\* it; a create without the flag enters nothing; the entry of a path in the
\* map carries the data and the ACL of the last create, set and set_acl.
Tracks(old, new, c) ==
    CASE c.meth = "create" ->
           IF c.flags \cap EPHEMERAL # {} \/ old.present
           THEN new.present /\ new.data = c.data /\ new.acl = c.acl
           ELSE ~new.present
      [] c.meth = "delete" -> ~new.present
      [] c.meth = "set" ->
           IF old.present THEN new.present /\ new.data = c.data /\ new.acl = old.acl
           ELSE ~new.present
      [] c.meth = "set_acl" ->
           IF old.present THEN new.present /\ new.data = old.data /\ new.acl = c.acl
           ELSE ~new.present

\* C7: the map follows the successful local calls: after each of them the
\* called path is in the map exactly if it was created with the EPHEMERAL
\* flag and not deleted since, with the data and ACL last written locally;
\* the other paths keep their entries; and a recovery creates no node at a
\* path that is not in the map.
C7_MapTracksLocalCalls ==
    [][/\ Succeeded =>
            /\ Tracks(ephemeral[last'.call.path], ephemeral'[last'.call.path], last'.call)
            /\ \A q \in Names \ {last'.call.path} : ephemeral'[q] = ephemeral[q]
       /\ ~Succeeded => ephemeral' = ephemeral
       /\ Recovering =>
            \A p \in Names : (~ephemeral[p].present /\ ~tree[p].exists) => ~tree'[p].exists]_vars

\* -------------------------------------------------------------- observers

\* The step in which the handler of the oldest watch event runs.
Delivering == handle # None /\ handle' = handle /\ pending # <<>> /\ last'.op = "event"

\* The session is connected and the user thread is in no constructor.
Settled == handle # None /\ low = CONNECTED_STATE /\ ctor.pc = "idle"

\* C8: while the session is connected and a key has observers, the handler
\* of a fired watch of the key reads the node, arms the watch again and gives
\* the value read to every observer of the key; so an observer that has had
\* a snapshot differs from the store only while an event of its key waits
\* for its handler: no change made after the last read goes unobserved.
C8_ContinuousWatch ==
    [][/\ (Delivering /\ watches[Head(pending).key] # {}
            /\ Head(pending).type # DELETED_EVENT /\ Exists(tree, Head(pending).key[2]))
         => LET key == Head(pending).key
            IN /\ armed'[key] = armed[key] + 1
               /\ watches'[key] = watches[key]
               /\ \A o \in watches[key] : obs'[o].data = Snapshot(tree, key)
       /\ Settled' =>
            \A key \in Keys : \A o \in watches'[key] :
               (obs'[o].data # NoData /\ Exists(tree', key[2])
                /\ obs'[o].data # Snapshot(tree', key))
                  => PendingCount(pending', key) >= 1]_vars

\* The constructor of observer o returns it in this step.
Returned(o) ==
    /\ obs'[o].live
    /\ ctor'.pc = "idle"
    /\ IF obs[o].live THEN ctor.pc # "idle" /\ ctor.o = o ELSE ctor.pc = "idle"

\* C9: children(path) and properties(path) never return an observer that
\* has no snapshot and no armed watch, whatever the session state.
C9_ConstructorSnapshot ==
    [][\A o \in Obs :
         Returned(o) => ~(/\ obs'[o].data = NoData
                          /\ ~Watched(armed', pending', KeyOf(obs'[o])))]_vars

\* C10: observer(func) calls func with the observer's snapshot and then
\* subscribes it; a func that raises is not subscribed, the exception
\* reaches the caller, and no later change calls it; a subscribed func is
\* called with every later snapshot.
C10_ImmediateFirstCall ==
    [][\A o \in Obs : \A cb \in CBs :
         /\ (last'.op = "observer" /\ last'.o = o /\ last'.cb = cb)
              => /\ obs'[o].seen[cb] = obs[o].data
                 /\ obs'[o].data = obs[o].data
                 /\ Raises(cb) => (cb \notin obs'[o].callbacks /\ last'.status = "EXCEPTION")
                 /\ ~Raises(cb) => (cb \in obs'[o].callbacks /\ last'.status = "OK")
         /\ (obs[o].live /\ obs'[o].live /\ cb \notin obs[o].callbacks
              /\ ~(last'.op = "observer" /\ last'.o = o /\ last'.cb = cb))
              => obs'[o].seen[cb] = obs[o].seen[cb]
         /\ (obs[o].live /\ obs'[o].live /\ cb \in obs[o].callbacks
              /\ ~obs'[o].deleted /\ obs'[o].data # obs[o].data)
              => obs'[o].seen[cb] = obs'[o].data]_vars

\* A watch event was just handled for an observer with a subscribed callback,
\* called with the new snapshot, and a callback that raised when it was
\* offered an older snapshot and has not been called since.
C10_RaisedNotCalledAgain ==
    /\ last.op = "event"
    /\ \E o \in watches[last.key] :
         /\ "good" \in obs[o].callbacks
         /\ obs[o].seen["good"] = obs[o].data
         /\ "bad" \notin obs[o].callbacks
         /\ obs[o].seen["bad"] \notin {NotCalled, NoData, obs[o].data}

\* C11: a callback that raises while it is notified is removed from the
\* observer and is not called again; every other subscribed callback of the
\* observer is still called for that notification and stays subscribed; the
\* handler of the watch event returns normally.
C11_RaisingCallbackIsolated ==
    [][/\ \A o \in Obs :
            (obs[o].live /\ obs'[o].live /\ ~obs'[o].deleted /\ obs'[o].data # obs[o].data)
              => \A cb \in obs[o].callbacks :
                    /\ obs'[o].seen[cb] = obs'[o].data
                    /\ RaisesLater(cb) => cb \notin obs'[o].callbacks
                    /\ ~RaisesLater(cb) => cb \in obs'[o].callbacks
       /\ \A o \in Obs : \A cb \in CBs :
            (obs[o].live /\ obs'[o].live /\ cb \notin obs[o].callbacks
              /\ ~(last'.op = "observer" /\ last'.o = o /\ last'.cb = cb))
              => (obs'[o].seen[cb] = obs[o].seen[cb] /\ cb \notin obs'[o].callbacks)
       /\ last'.op = "event" => last'.status = "OK"]_vars

\* A watch event was just handled for an observer whose raising callback
\* was removed by an earlier notification and has not been called since,
\* while its other callback was called with the new snapshot.
C11_RemovedOthersStillCalled ==
    /\ last.op = "event"
    /\ \E o \in watches[last.key] :
         /\ "good" \in obs[o].callbacks
         /\ obs[o].seen["good"] = obs[o].data
         /\ "late" \notin obs[o].callbacks
         /\ obs[o].seen["late"] \notin {NotCalled, NoData, obs[o].data}

\* C12: when an observer becomes deleted, each of its subscribed callbacks
\* that can be called without arguments is called without an argument, and
\* no callback that requires its argument is called; all stay subscribed.
\* On a live update every subscribed callback is called with the observer.
C12_DeletionCallsZeroArgCallbacks ==
    [][\A o \in Obs :
         /\ (obs[o].live /\ obs'[o].live /\ ~obs[o].deleted /\ obs'[o].deleted)
              => /\ obs'[o].callbacks = obs[o].callbacks
                 /\ \A cb \in CBs :
                      IF cb \in obs[o].callbacks /\ TakesNoArgs(cb)
                      THEN obs'[o].seen[cb] = DeletedCall
                      ELSE obs'[o].seen[cb] = obs[o].seen[cb]
         /\ (obs[o].live /\ obs'[o].live /\ ~obs'[o].deleted /\ obs'[o].data # obs[o].data)
              => \A cb \in obs[o].callbacks : obs'[o].seen[cb] = obs'[o].data]_vars

\* A watch event was just handled that marked an observer deleted: its
\* callback with an optional argument was called without one, its callback
\* with a required argument still holds the snapshot of its last call.
C12_DeletedWithBothCallbacks ==
    /\ last.op = "event"
    /\ \E o \in Obs :
         /\ obs[o].live /\ obs[o].deleted /\ obs[o].data = EmptyDict
         /\ obs[o].callbacks = {"good", "opt"}
         /\ obs[o].seen["opt"] = DeletedCall
         /\ obs[o].seen["good"] \notin {NotCalled, NoData, DeletedCall, EmptyDict}

\* --------------------------------------------------------------- resolver

\* A path without empty, '.' or '..' segments that starts with '/'; "/" is one.
Canonical(path) ==
    /\ StartsWithSlash(path)
    /\ path = Slash \/ \A i \in 2..Len(path) : path[i] \notin {"", ".", ".."}

\* C15: when resolve(p) returns a path, resolve of that path returns the
\* same path.
C15_ResolveIdempotent ==
    (last.op = "resolve" /\ last.status = "OK")
      => Resolving_resolve(tree, last.result, <<>>, MaxDepth) = Returns(last.result)

\* C16: a path resolve returns is absolute, has no empty, '.' or '..'
\* segment ("/" itself is allowed) and names a node that exists.
C16_ResolveCanonicalExisting ==
    (last.op = "resolve" /\ last.status = "OK")
      => (Canonical(last.result) /\ exists(tree, last.result) = "YES")

\* The followed paths of a LinkLoop: distinct paths, then one of them again.
LoopChain(chain) ==
    /\ Len(chain) >= 2
    /\ \E i \in 1..(Len(chain) - 1) : chain[i] = Last(chain)
    /\ \A i, j \in 1..(Len(chain) - 1) : i # j => chain[i] # chain[j]

\* C17: resolve ends on every path and tree, within the nested calls the
\* interpreter allows; a LinkLoop carries the followed paths in order, ending
\* with the repeated one; two links that point at each other, and a link
\* stored on the root node that points at itself, end in LinkLoop.
C17_ResolveTerminatesWithLinkLoop ==
    last.op = "resolve" =>
      /\ last.status # "RECURSION"
      /\ last.status = "LINKLOOP" => LoopChain(last.result)
      /\ ( /\ last.path = <<"", "a", "a">>
           /\ ~tree[<<"a", "a">>].exists /\ ~tree[<<"a", "b">>].exists
           /\ tree[<<"a">>].links["a"] = <<"", "a", "b">>
           /\ tree[<<"a">>].links["b"] = <<"", "a", "a">> )
         => ( /\ last.status = "LINKLOOP"
              /\ last.result = << <<"", "a", "a">>, <<"", "a", "b">>, <<"", "a", "a">> >> )
      /\ ( /\ last.path = <<"", "b">>
           /\ ~tree[<<"b">>].exists
           /\ tree[<<>>].links["b"] = <<"", "b">> )
         => ( /\ last.status = "LINKLOOP"
              /\ last.result = << <<"", "b">>, <<"", "b">> >> )

\* -------------------------------------------------------------- registry

\* User code lets go of observer o in this step.
Dropped(o) == ctor.pc = "idle" /\ ctor' = ctor /\ obs[o].live /\ ~obs'[o].live

Rewatching ==
    /\ pending # <<>>
    /\ last'.op = "event"
    /\ watches[Head(pending).key] # {}
    /\ (Head(pending).type = DELETED_EVENT \/ exists(tree, Head(pending).key[2]) # "YES")

\* C13: when the watched node is deleted, the path of every observer of the
\* key is resolved again.  An observer whose path resolves is registered
\* under the resolved path, with a watch armed there, holds that node's value
\* and its callbacks were called with it; one whose path does not resolve
\* leaves the registry, is marked deleted with an empty snapshot, and its
\* callbacks that take no argument were called.
C13_DeletionReResolves ==
    [][Rewatching =>
         \A o \in watches[Head(pending).key] :
            LET r == Resolving_resolve(tree, obs[o].path, <<>>, MaxDepth)
                newkey == <<obs[o].kind, r.path>>
            IN IF r.status = "OK"
               THEN /\ o \in watches'[newkey]
                    /\ \A k \in DOMAIN watches' \ {newkey} : o \notin watches'[k]
                    /\ obs'[o].real_path = r.path
                    /\ ~obs'[o].deleted
                    /\ obs'[o].data = LinkedSnapshot(tree, r.path)
                    /\ \A cb \in obs[o].callbacks : obs'[o].seen[cb] = obs'[o].data
                    /\ Watched(armed', pending', newkey)
               ELSE /\ \A k \in DOMAIN watches' : o \notin watches'[k]
                    /\ obs'[o].deleted
                    /\ obs'[o].data = EmptyDict
                    /\ \A cb \in obs[o].callbacks :
                         TakesNoArgs(cb) => obs'[o].seen[cb] = DeletedCall]_vars

\* ------------------------------------------------------------ property links

\* A step of Properties.set or Properties.update; last'.data is the data the
\* call arrives at.
Writing == last'.op \in {"set", "update"}
\* A property link of data is bad: its tokens are none or more than two, its
\* path does not resolve, or the node it resolves to has neither the field
\* nor a link for the field.
BadLinkAt(t, P, link, name) ==
    \/ Len(link) = 0
    \/ Len(link) > 2
    \/ LET r == Resolving_resolve(t, LinkPath(P, link), <<>>, MaxDepth)
           field == IF Len(link) = 2 THEN link[2] ELSE BaseName(name)
           target == decode_props(t[NodeOf(r.path)].data)
       IN \/ r.status # "OK"
          \/ field \notin DOMAIN target /\ LinkKeyOf(field) \notin DOMAIN target
BadLinks_of(t, P, data) == {name \in DOMAIN data : IsLinkKey(name) /\ BadLinkAt(t, P, data[name], name)}
\* The call raised, wrote nothing to the store, fired no watch and left the
\* object with its data and its linked objects as they were.
Rejected ==
    /\ last'.status = "RAISED"
    /\ tree' = tree
    /\ pending' = pending
    /\ obs'.props = obs.props

\* C18 as the specification states it: a set or update whose data has a bad
\* property link is rejected, the store, the snapshot and the linked objects
\* staying as they were.  Refuted by a bad link under a name whose literal key
\* is in the data as well: _setData passes over it and the data is written.
C18_AnyBadLinkRejected ==
    [][(Writing /\ BadLinks_of(tree, obs.props, last'.data) # {}) => Rejected]_vars

\* C18, amended: a set or update whose data has a bad property link under a
\* name that no literal key of the data shadows raises an error, writes
\* nothing to the store and leaves the snapshot, the linked objects and the
\* stored payload as they were.
C18_BadLinkRejected ==
    [][(Writing /\ \E name \in BadLinks_of(tree, obs.props, last'.data) :
                      BaseName(name) \notin DOMAIN last'.data)
       => Rejected]_vars

\* An update was rejected for a link to a node that is not there, by an
\* object that has a linked object.
C18_RejectedWithLinkedObject ==
    /\ last.op = "update"
    /\ last.status = "RAISED"
    /\ last.exc.cause.type = "NONODE"
    /\ obs.props.linked # NoLinked
    /\ "x =>" \in DOMAIN obs.props.data

\* The object's data has a property link, not shadowed by a literal key,
\* whose path resolves to the node.
LinksTo(t, P, path) ==
    \E name \in DOMAIN P.data :
       /\ IsLinkKey(name)
       /\ BaseName(name) \notin DOMAIN P.data
       /\ Len(P.data[name]) \in {1, 2}
       /\ Resolving_resolve(t, LinkPath(P, P.data[name]), <<>>, MaxDepth) = Returns(path)
KeyB == <<CHANGED_EVENT, PathB>>
\* The user's object of "/a" with a callback subscribed.
Subscribed == obs.made /\ obs.callbacks # {}
\* A step in which the data of "/b" is set.
ChangesB == last'.op = "other" /\ last'.path = PathB /\ tree[<<"b">>].exists /\ tree'[<<"b">>].exists
\* A step in which the handler of the watch of "/b" reads its data.
HandlesB == last'.op = "event" /\ last'.key = KeyB /\ tree[<<"b">>].exists
\* properties["x"] gives the x of the data of "/b", if that has one.
ResolvesToB(t, P) ==
    "x" \in DOMAIN decode_props(t[<<"b">>].data)
    => /\ __getitem__(t, P, "x", <<>>, MaxDepth).status = "OK"
       /\ __getitem__(t, P, "x", <<>>, MaxDepth).value = decode_props(t[<<"b">>].data)["x"]

\* C19: while the data of a Properties object of "/a" has a property link to
\* "/b", every change of the data of "/b" reaches the object (a watch event is
\* on its way after the change) and its handling calls the callbacks of the
\* object, whose own data stays and whose linked key gives the new value of
\* "/b"; while the data has no such link, or a literal key shadows it, the
\* events of "/b" call no callback of the object.
C19_LinkedChangeNotifies ==
    [][/\ (ChangesB /\ Subscribed /\ LinksTo(tree, obs.props, PathB))
          => PendingCount(pending', KeyB) >= 1
       /\ (HandlesB /\ Subscribed /\ LinksTo(tree, obs.props, PathB))
          => /\ last'.fired = obs.callbacks
             /\ obs'.props.data = obs.props.data
             /\ ResolvesToB(tree', obs'.props)
       /\ (last'.op = "event" /\ last'.key = KeyB /\ Subscribed
           /\ ~LinksTo(tree, obs.props, PathB))
          => last'.fired = {}]_vars

\* The innermost cause of what a lookup raised.
RECURSIVE Cause(_)
Cause(exc) == IF exc.type = "BadPropertyLink" THEN Cause(exc.cause) ELSE exc
\* The resolved paths of a chain, the last one being among those before it
\* and no other one twice.
RevisitChain(chain) ==
    /\ Len(chain) >= 2
    /\ \E i \in 1..(Len(chain) - 1) : chain[i] = chain[Len(chain)]
    /\ \A i, j \in 1..(Len(chain) - 1) : i # j => chain[i] # chain[j]
\* The links of the object of "/a" and of its linked objects lead to "/b",
\* back to "/a" and to "/b" again, both nodes being there.
LoopOfLinks(t, P) ==
    /\ t[<<"b">>].exists
    /\ P.data = PropDict("", <<PathB>>)
    /\ PathB \in DOMAIN P.linked
    /\ P.linked[PathB].data = PropDict("", <<PathA>>)
    /\ PathA \in DOMAIN P.linked[PathB].linked
    /\ P.linked[PathB].linked[PathA].data = PropDict("", <<PathB>>)

\* C20: a lookup properties[key] ends, with a value or an exception and
\* never by running out of nested calls; a literal key of the object's data
\* gives its value, whatever link the data has beside it; a chain of links that comes to a resolved path a second time ends the lookup at
\* that visit with a LinkLoop of the paths visited, wrapped in a
\* BadPropertyLink that names the key and the link; and when the links of
\* "/a" and "/b" lead to each other the lookup of the linked key raises
\* just that.
C20_LookupCycleChecked ==
    last.op = "get" =>
       /\ last.status \in {"OK", "RAISED"}
       /\ Cause(last.exc).type # "RECURSION"
       /\ last.key \in DOMAIN obs.props.data
          => last.status = "OK" /\ last.value = obs.props.data[last.key]
       /\ last.status = "RAISED" /\ last.exc.type # "KeyError"
          => /\ last.exc.type = "BadPropertyLink"
             /\ last.exc.key = LinkKeyOf(last.key)
             /\ last.exc.link = obs.props.data[LinkKeyOf(last.key)]
       /\ Cause(last.exc).type = "LinkLoop" => RevisitChain(Cause(last.exc).chain)
       /\ (last.key = "x" /\ LoopOfLinks(tree, obs.props))
          => Cause(last.exc).type = "LinkLoop"

\* The lookup of the linked key of "/a" was ended by the loop over "/b" and
\* "/a".
C20_LoopLookupRaised ==
    /\ last.op = "get"
    /\ last.status = "RAISED"
    /\ Cause(last.exc) = [type |-> "LinkLoop", chain |-> <<PathB, PathA, PathB>>]


\* ------------------------------------------------- tree import and deletion

\* Node names of the imported text: '/(?P<name>\S+)' admits a name of more
\* than one segment, such as "a/b".  A name is kept as its split('/').
DslNames == {<<"a">>, <<"a", "b">>, <<"b">>}
\* The order of sorted() on these names and on the names of live children.
NameRank(n) == IF n = <<"a">> THEN 1 ELSE IF n = <<"a", "b">> THEN 2 ELSE 3
RECURSIVE sorted(_)
sorted(S) ==
    IF S = {} THEN <<>>
    ELSE LET m == CHOOSE x \in S : \A y \in S : NameRank(x) <= NameRank(y)
         IN <<m>> \o sorted(S \ {m})
\* join(path, name) and path + '/' + name.
join(path, name) == path \o name

\* A node of the service: payload, ACL (the permissions it grants to all)
\* and whether a session owns it.
TNode(data, acl, eph) == [exists |-> TRUE, data |-> data, acl |-> acl, eph |-> eph]
TNone == [exists |-> FALSE, data |-> [text |-> ""], acl |-> OPEN_ACL_UNSAFE, eph |-> FALSE]
\* The paths the session can remember as ephemeral.
EphPaths == {<<"">> \o n : n \in NodeIds \ {<<>>}}

\* _traverse(path).
_traverse(t, path) ==
    IF badpath(path) THEN "BADARG"
    ELSE IF NodeOf(path) \in NodeIds /\ t[NodeOf(path)].exists THEN "OK"
    ELSE "NONODE"
\* node.children of the node at path.
node_children(t, path) ==
    {<<x>> : x \in {s \in Segs : /\ Append(NodeOf(path), s) \in NodeIds
                                 /\ t[Append(NodeOf(path), s)].exists}}
\* base or '/' of path.rsplit('/', 1).
BaseOrRoot(path) == IF Front(path) = <<"">> THEN Slash ELSE Front(path)

\* The outcome of the service's get_children/get, set, set_acl, create and
\* delete for the connected session: "OK" or the exception raised.
ReadStatus(t, path) ==
    IF _traverse(t, path) # "OK" THEN _traverse(t, path)
    ELSE IF "READ" \notin t[NodeOf(path)].acl THEN "NOAUTH"
    ELSE "OK"
SetStatus(t, path) ==
    IF _traverse(t, path) # "OK" THEN _traverse(t, path)
    ELSE IF "WRITE" \notin t[NodeOf(path)].acl THEN "NOAUTH"
    ELSE "OK"
SetAclStatus(t, path) ==
    IF _traverse(t, path) # "OK" THEN _traverse(t, path)
    ELSE IF "ADMIN" \notin t[NodeOf(path)].acl THEN "NOAUTH"
    ELSE "OK"
CreateStatus(t, path) ==
    IF EndsWith(Front(path), "") THEN "BADARG"
    ELSE IF _traverse(t, BaseOrRoot(path)) # "OK" THEN _traverse(t, BaseOrRoot(path))
    ELSE IF "CREATE" \notin t[NodeOf(BaseOrRoot(path))].acl THEN "NOAUTH"
    ELSE IF Append(NodeOf(BaseOrRoot(path)), Last(path)) \notin NodeIds THEN "NONODE"
    ELSE IF t[Append(NodeOf(BaseOrRoot(path)), Last(path))].exists THEN "NODEEXISTS"
    ELSE "OK"
DeleteStatus(t, path) ==
    IF _traverse(t, path) # "OK" THEN _traverse(t, path)
    ELSE IF node_children(t, path) # {} THEN "NOTEMPTY"
    ELSE IF _traverse(t, BaseOrRoot(path)) # "OK" THEN _traverse(t, BaseOrRoot(path))
    ELSE IF "DELETE" \notin t[NodeOf(BaseOrRoot(path))].acl THEN "NOAUTH"
    ELSE IF NodeOf(path) = <<>> THEN "KEYERROR"
    ELSE "OK"

\* The session in a call of import_tree or delete_recursive: the service's
\* tree, the remembered ephemerals, the create, set, set_acl and delete
\* calls issued so far and "OK" or the exception that ended the call.
ImpState(t, eph, calls, status) ==
    [tree |-> t, eph |-> eph, calls |-> calls, status |-> status, untrimmed |-> <<>>]
Issued(S, meth, path, status) ==
    [S EXCEPT !.calls = Append(@, <<meth, path>>), !.status = status]
Remembered(eph, path) == path \in DOMAIN eph /\ eph[path].present

\* create, set, set_acl and delete of the session: _async without a
\* completion, the service's call and then the _post_ method.
Session_create(S, path, data, acl, flags) ==
    IF CreateStatus(S.tree, path) # "OK"
    THEN Issued(S, "create", path, CreateStatus(S.tree, path))
    ELSE [Issued(S, "create", path, "OK") EXCEPT
            !.tree = [@ EXCEPT ![NodeOf(path)] = TNode(data, acl, flags = EPHEMERAL)],
            !.eph = IF flags = EPHEMERAL /\ path \in DOMAIN @
                    THEN [@ EXCEPT ![path] = Entry(data, acl, flags)] ELSE @]
Session_set(S, path, data) ==
    IF SetStatus(S.tree, path) # "OK"
    THEN Issued(S, "set", path, SetStatus(S.tree, path))
    ELSE [Issued(S, "set", path, "OK") EXCEPT
            !.tree = [@ EXCEPT ![NodeOf(path)].data = data],
            !.eph = IF Remembered(@, path) THEN [@ EXCEPT ![path].data = data] ELSE @]
Session_set_acl(S, path, acl) ==
    IF SetAclStatus(S.tree, path) # "OK"
    THEN Issued(S, "set_acl", path, SetAclStatus(S.tree, path))
    ELSE [Issued(S, "set_acl", path, "OK") EXCEPT
            !.tree = [@ EXCEPT ![NodeOf(path)].acl = acl],
            !.eph = IF Remembered(@, path) THEN [@ EXCEPT ![path].acl = acl] ELSE @]
Session_delete(S, path) ==
    IF DeleteStatus(S.tree, path) # "OK"
    THEN Issued(S, "delete", path, DeleteStatus(S.tree, path))
    ELSE [Issued(S, "delete", path, "OK") EXCEPT
            !.tree = [@ EXCEPT ![NodeOf(path)] = TNone],
            !.eph = IF path \in DOMAIN @ THEN [@ EXCEPT ![path] = NoEntry] ELSE @]

\* What _delete_recursive gives: the session and the returned flag.
Gives(S, flag) == [S |-> S, ephemeral |-> flag]
Fails(S, status) == [S |-> [S EXCEPT !.status = status], ephemeral |-> FALSE]

\* _delete_recursive from "ephemeral = ..." on: the node is read, and
\* deleted unless it is ephemeral and not forced, or the run is dry.
\* The same with the ephemeral node deleted as any other.
DeleteSelf_any(S, path, dry_run, force) ==
    IF ReadStatus(S.tree, path) # "OK" THEN Fails(S, ReadStatus(S.tree, path))
    ELSE IF dry_run THEN Gives(S, FALSE)
    ELSE Gives(Session_delete(S, path), FALSE)
DeleteSelf(S, path, dry_run, force) ==
    IF ReadStatus(S.tree, path) # "OK" THEN Fails(S, ReadStatus(S.tree, path))
    ELSE IF S.tree[NodeOf(path)].eph /\ ~force THEN Gives(S, TRUE)
    ELSE IF dry_run THEN Gives(S, FALSE)
    ELSE Gives(Session_delete(S, path), FALSE)
\* "if ephemeral_child: ... return ephemeral_child".
DeleteAfterLoop(r, path, dry_run, force) ==
    IF r.S.status # "OK" \/ r.ephemeral THEN r
    ELSE DeleteSelf(r.S, path, dry_run, force)

RECURSIVE _delete_recursive(_, _, _, _)
RECURSIVE DeleteLoop(_, _, _, _, _, _, _)
\* One turn of the loop: "ephemeral_child = (... or ephemeral_child)".
DeleteNext(r, path, names, i, ephemeral_child, dry_run, force) ==
    DeleteLoop(r.S, path, names, i + 1, r.ephemeral \/ ephemeral_child, dry_run, force)
DeleteLoop(S, path, names, i, ephemeral_child, dry_run, force) ==
    IF S.status # "OK" \/ i > Len(names) THEN Gives(S, ephemeral_child)
    ELSE DeleteNext(_delete_recursive(S, join(path, names[i]), dry_run, force),
                    path, names, i, ephemeral_child, dry_run, force)
_delete_recursive(S, path, dry_run, force) ==
    IF S.status # "OK" THEN Gives(S, FALSE)
    ELSE IF ReadStatus(S.tree, path) # "OK" THEN Fails(S, ReadStatus(S.tree, path))
    ELSE DeleteAfterLoop(
             DeleteLoop(S, path, sorted(node_children(S.tree, path)), 1, FALSE,
                        dry_run, force),
             path, dry_run, force)
\* delete_recursive(path, dry_run, force)
delete_recursive(S, path, dry_run, force) == _delete_recursive(S, path, dry_run, force).S

\* A ParseNode: its properties and its children by name.
NoChildren == [n \in {} |-> NoProps]
ParseNode(props, children) == [properties |-> props, children |-> children]

\* trim is "True", "False" or "None"; "if trim:" takes the first only.
TrimModes == {"True", "False", "None"}
Truthy(trim) == trim = "True"
\* The loop over the live children that the text does not name: each is
\* deleted recursively (never forced) when trimming; otherwise "extra path
\* not trimmed:" is printed with its path, which untrimmed collects.
RECURSIVE TrimLoop(_, _, _, _, _, _, _)
TrimLoop(S, path, names, i, new_children, trim, dry_run) ==
    IF S.status # "OK" \/ i > Len(names) THEN S
    ELSE IF names[i] \in new_children
    THEN TrimLoop(S, path, names, i + 1, new_children, trim, dry_run)
    ELSE IF ~Truthy(trim)
    THEN TrimLoop([S EXCEPT !.untrimmed = Append(@, join(path, names[i]))],
                  path, names, i + 1, new_children, trim, dry_run)
    ELSE TrimLoop(delete_recursive(S, join(path, names[i]), dry_run, FALSE),
                  path, names, i + 1, new_children, trim, dry_run)
\* "if not top: ..."
Trim(S, path, node, trim, dry_run, top) ==
    IF top THEN S
    ELSE IF ReadStatus(S.tree, path) # "OK"
    THEN [S EXCEPT !.status = ReadStatus(S.tree, path)]
    ELSE TrimLoop(S, path, sorted(node_children(S.tree, path)), 1, DOMAIN node.children,
                  trim, dry_run)

\* The existing node of a name: set(cpath, data), get_acl and, when the ACL
\* differs, set_acl.
ImportAcl(S, cpath, acl) ==
    IF S.status # "OK" \/ S.tree[NodeOf(cpath)].acl = acl THEN S
    ELSE Session_set_acl(S, cpath, acl)
ImportExisting(S, cpath, data, acl) == ImportAcl(Session_set(S, cpath, data), cpath, acl)
\* The dry run over an existing node reads it (get_properties and get) and
\* prints the differences.
ImportDiff(S, cpath) ==
    IF ReadStatus(S.tree, cpath) # "OK"
    THEN [S EXCEPT !.status = ReadStatus(S.tree, cpath)]
    ELSE S
\* The body of the loop over the children of the text up to the nested
\* call: the session after it and whether the nested call is made.
Descend(S, flag) == [S |-> S, descend |-> flag]
\* The loop body without its dry_run branches.
ImportChild_wet(S, cpath, data, acl, dry_run) ==
    IF badpath(cpath) THEN Descend([S EXCEPT !.status = "BADARG"], FALSE)
    ELSE IF _traverse(S.tree, cpath) = "OK"
    THEN Descend(ImportExisting(S, cpath, data, acl), TRUE)
    ELSE Descend(Session_create(S, cpath, data, acl, {}), TRUE)
ImportChild(S, cpath, data, acl, dry_run) ==
    IF badpath(cpath) THEN Descend([S EXCEPT !.status = "BADARG"], FALSE)
    ELSE IF _traverse(S.tree, cpath) = "OK"
    THEN IF dry_run THEN Descend(ImportDiff(S, cpath), TRUE)
         ELSE Descend(ImportExisting(S, cpath, data, acl), TRUE)
    ELSE IF dry_run THEN Descend(S, FALSE)
    ELSE Descend(Session_create(S, cpath, data, acl, {}), TRUE)

RECURSIVE _import_tree(_, _, _, _, _, _, _)
RECURSIVE ChildLoop(_, _, _, _, _, _, _, _)
ChildNext(r, path, node, names, i, acl, trim, dry_run) ==
    ChildLoop(IF r.descend /\ r.S.status = "OK"
              THEN _import_tree(r.S, join(path, names[i]), node.children[names[i]],
                                acl, trim, dry_run, FALSE)
              ELSE r.S,
              path, node, names, i + 1, acl, trim, dry_run)
ChildLoop(S, path, node, names, i, acl, trim, dry_run) ==
    IF S.status # "OK" \/ i > Len(names) THEN S
    ELSE ChildNext(ImportChild(S, join(path, names[i]),
                               encode_props(node.children[names[i]].properties),
                               acl, dry_run),
                   path, node, names, i, acl, trim, dry_run)
_import_tree(S, path, node, acl, trim, dry_run, top) ==
    ChildLoop(Trim(S, path, node, trim, dry_run, top), path, node,
              sorted(DOMAIN node.children), 1, acl, trim, dry_run)

\* "while path.endswith('/'): path = path[:-1]"
RECURSIVE StripSlashes(_)
StripSlashes(path) == IF EndsWith(path, "") THEN StripSlashes(Front(path)) ELSE path
\* import_tree(text, path, trim, acl, dry_run), the text given parsed.
import_tree(S, node, path, trim, acl, dry_run) ==
    _import_tree(S, StripSlashes(path), node, acl, trim, dry_run, TRUE)

\* The node of the service at each path that a ParseNode's descendants name.
RECURSIVE DslNodes(_, _)
DslNodes(path, node) ==
    UNION {{[path |-> join(path, n), node |-> node.children[n]]}
           \cup DslNodes(join(path, n), node.children[n]) : n \in DOMAIN node.children}

\* The texts imported, given parsed: "/a" alone or with a child "/b" below
\* it, "/b", and a node line "/a/b".
PropsX == [k \in {"x"} |-> "v1"]
PropsY == [k \in {"y"} |-> "v2"]
Leaf(props) == ParseNode(props, NoChildren)
Missing == ParseNode(NoProps, [n \in {<<"none">>} |-> NoProps])
ParseRoot(a, b, ab) ==
    ParseNode(NoProps,
              [n \in {x \in DslNames : \/ x = <<"a">> /\ a # Missing
                                       \/ x = <<"b">> /\ b # Missing
                                       \/ x = <<"a", "b">> /\ ab # Missing}
                 |-> IF n = <<"a">> THEN a ELSE IF n = <<"b">> THEN b ELSE ab])
ParseTrees ==
    {ParseRoot(a, b, ab) :
        a \in {Missing, Leaf(PropsX),
               ParseNode(PropsX, [n \in {<<"b">>} |-> Leaf(PropsX)])},
        b \in {Missing, Leaf(PropsX)},
        ab \in {Missing, Leaf(PropsY)}}
ImportInput(node, path, trim, acl, dry_run) ==
    [node |-> node, path |-> path, trim |-> trim, acl |-> acl, dry_run |-> dry_run]
ImportInputs ==
    {i \in {ImportInput(node, path, trim, acl, dry_run) :
               node \in ParseTrees, path \in {Slash, PathA}, trim \in {"True", "False"},
               acl \in Acls, dry_run \in BOOLEAN} :
        \A d \in DslNodes(StripSlashes(i.path), i.node) : NodeOf(d.path) \in NodeIds}
DeleteInput(path, dry_run, force) == [path |-> path, dry_run |-> dry_run, force |-> force]
DeleteInputs ==
    {DeleteInput(path, dry_run, force) :
        path \in {Slash, PathA, PathB, PathAB}, dry_run \in BOOLEAN, force \in BOOLEAN}
\* Nodes the session creates itself, ephemeral ones among them.
MakeInput(path, flags) == [path |-> path, flags |-> flags]
MakeInputs ==
    {MakeInput(path, flags) : path \in {PathA, PathB, PathAB, <<"", "a", "a">>},
                              flags \in FlagSets}

\* A call of import_tree, delete_recursive or create has ended.
TreeCallDone(op, input, S) ==
    /\ tree' = S.tree
    /\ ephemeral' = S.eph
    /\ last' = [op |-> op, status |-> S.status, input |-> input, calls |-> S.calls,
                 untrimmed |-> S.untrimmed]
    /\ UNCHANGED <<handle, low, connected, watches, obs, armed, pending, ctor, inflight>>

ImportTree(I) ==
    \E i \in I :
       /\ handle # None
       /\ TreeCallDone("import", i,
                       import_tree(ImpState(tree, ephemeral, <<>>, "OK"), i.node, i.path,
                                   i.trim, i.acl, i.dry_run))
DeleteRecursive(I) ==
    \E i \in I :
       /\ handle # None
       /\ TreeCallDone("delete_recursive", i,
                       delete_recursive(ImpState(tree, ephemeral, <<>>, "OK"), i.path,
                                        i.dry_run, i.force))
TreeCreate(I) ==
    \E i \in I :
       /\ handle # None
       /\ TreeCallDone("create", i,
                       Session_create(ImpState(tree, ephemeral, <<>>, "OK"), i.path,
                                      encode_props(PropsX), OPEN_ACL_UNSAFE, i.flags))

\* The tree holds "/a"; the session is connected and remembers no node.
InitTree ==
    /\ tree = [n \in NodeIds |->
                 IF n = <<>> THEN TNode(encode_props(NoProps), OPEN_ACL_UNSAFE, FALSE)
                 ELSE IF n = <<"a">> THEN TNode(encode_props(PropsY), OPEN_ACL_UNSAFE, FALSE)
                 ELSE TNone]
    /\ handle = Handle
    /\ low = CONNECTED_STATE
    /\ connected = TRUE
    /\ ephemeral = [p \in EphPaths |-> NoEntry]
    /\ watches = [k \in PropKeys |-> {}]
    /\ obs = [made |-> FALSE, callbacks |-> {}, props |-> NewProps(PathA)]
    /\ armed = [k \in PropKeys |-> 0]
    /\ pending = <<>>
    /\ ctor = Idle
    /\ inflight = <<>>
    /\ last = NoCall
\* Imports that write, on a tree without ephemeral nodes.
NextImport == ImportTree({i \in ImportInputs : ~i.dry_run})
SpecImport == InitTree /\ [][NextImport]_vars
\* Dry runs of import_tree and delete_recursive over the trees that the
\* session's own nodes make.
NextDryRun ==
    \/ ImportTree({i \in ImportInputs : i.dry_run})
    \/ DeleteRecursive({i \in DeleteInputs : i.dry_run})
    \/ TreeCreate(MakeInputs)
SpecDryRun == InitTree /\ [][NextDryRun]_vars
\* delete_recursive over the trees that the session's own nodes make.
NextDelete == DeleteRecursive(DeleteInputs) \/ TreeCreate(MakeInputs)
SpecDelete == InitTree /\ [][NextDelete]_vars

\* ------------------------------------------------------ the text of a tree

\* A text is kept as its lines, a line as its indentation and its words
\* (what is left between its blanks).  A Python value is a string, kept as
\* its words, or an integer, kept as its digits.
Line(indent, words) == [indent |-> indent, words |-> words]
PyStr(words) == [type |-> "str", words |-> words]
PyInt(digits) == [type |-> "int", words |-> <<digits>>]
PyError == [type |-> "error", words |-> <<>>]
\* A property name: the name of the line, with ' ->' or ' =>' after it for
\* a link.  KeyParts gives the two back (name.endswith(' ->'), name[:-3]).
KeyNames == {"l", "p", "type", "x", "y"}
KeyOps == {"", "->", "=>"}
Key(name, op) == IF op = "" THEN name ELSE name \o " " \o op
KeyParts(key) == CHOOSE r \in [name : KeyNames, op : KeyOps] : Key(r.name, r.op) = key
KeyWords(key) ==
    IF KeyParts(key).op = "" THEN <<key>> ELSE <<KeyParts(key).name, KeyParts(key).op>>
\* The order of sorted() on the property names used.
KeyRank(key) ==
    (CASE KeyParts(key).name = "l" -> 0 [] KeyParts(key).name = "p" -> 3
       [] KeyParts(key).name = "type" -> 6 [] KeyParts(key).name = "x" -> 9 [] OTHER -> 12)
    + (CASE KeyParts(key).op = "" -> 0 [] KeyParts(key).op = "->" -> 1 [] OTHER -> 2)

\* The words that are node names after a '/', and those that start with '/'.
NodeWords == [w \in {"/a", "/b"} |-> IF w = "/a" THEN "a" ELSE "b"]
NodeWord(name) == IF name = "a" THEN "/a" ELSE "/b"
StartsWithSlashWord(w) == w \in DOMAIN NodeWords

\* eval(expr, {}) of the expressions used, and '%r' of the values that
\* json.loads gives back (its strings are unicode).
eval(expr) ==
    CASE expr = <<"1">> -> PyInt("1")
      [] expr = <<"'v1'">> -> PyStr(<<"v1">>)
      [] expr = <<"u'v1'">> -> PyStr(<<"v1">>)
      [] expr = <<"u't'">> -> PyStr(<<"t">>)
      [] expr = <<"u'/b'">> -> PyStr(<<"/b">>)
      [] expr = <<"u'/b", "y'">> -> PyStr(<<"/b", "y">>)
      [] OTHER -> PyError
repr(value) ==
    CASE value.type = "int" -> value.words
      [] value = PyStr(<<"v1">>) -> <<"u'v1'">>
      [] value = PyStr(<<"t">>) -> <<"u't'">>
      [] value = PyStr(<<"/b">>) -> <<"u'/b'">>
      [] value = PyStr(<<"/b", "y">>) -> <<"u'/b", "y'">>
      [] OTHER -> <<"u'", "'">>

\* What a line is: the first of _text_is_plink, _text_is_property,
\* _text_is_link and _text_is_node that matches it.
Words(words, i) == SubSeq(words, i, Len(words))
IsPlink(words) ==
    /\ Len(words) \in 3..5
    /\ words[2] = "=>"
    /\ Len(words) = 5 => StartsWithSlashWord(words[5])
IsProperty(words) == Len(words) >= 3 /\ words[2] \in {"=", "=>"}
IsLink(words) == Len(words) = 3 /\ words[2] = "->"
IsNode(words) ==
    /\ Len(words) >= 1
    /\ words[1] \in DOMAIN NodeWords
    /\ Len(words) > 1 => (Len(words) >= 3 /\ words[2] = ":")
Data(kind, key, value) == [kind |-> kind, key |-> key, value |-> value]
Classify(words) ==
    IF IsPlink(words)
    THEN Data("data", Key(words[1], "=>"), PyStr(SubSeq(words, 3, IF Len(words) = 3 THEN 3 ELSE 4)))
    ELSE IF IsProperty(words)
    THEN IF words[2] = "=>" \/ eval(Words(words, 3)) = PyError
         THEN Data("ValueError", Key(words[1], ""), PyError)
         ELSE Data("data", Key(words[1], ""), eval(Words(words, 3)))
    ELSE IF IsLink(words) THEN Data("data", Key(words[1], "->"), PyStr(<<words[3]>>))
    ELSE IF IsNode(words)
    THEN Data("node", NodeWords[words[1]],
              IF Len(words) > 1 THEN PyStr(Words(words, 3)) ELSE PyError)
    ELSE Data("ValueError", "", PyError)

\* parse_tree while it runs: indents as (indentation, is it a node, the
\* node's path of names), the nodes made so far (the root is <<>>) with
\* their properties, and "OK" or the error raised.
Parsing(indents, props, status) == [indents |-> indents, props |-> props, status |-> status]
Indent(indent, isnode, id) == [indent |-> indent, isnode |-> isnode, id |-> id]
ParseFails(P) == [P EXCEPT !.status = "ValueError"]
Top(P) == P.indents[Len(P.indents)]
\* "while indent < indents[-1][0]: indents.pop()"
RECURSIVE PopTo(_, _)
PopTo(indents, indent) ==
    IF indent < indents[Len(indents)].indent THEN PopTo(Front(indents), indent) ELSE indents
\* The first part of the loop body: the line is put on indents or indents
\* is cut back to its indentation.
Indented(P, indent, data) ==
    IF indent > Top(P).indent
    THEN IF ~Top(P).isnode THEN ParseFails(P)
         ELSE [P EXCEPT !.indents = Append(@, Indent(indent, data.kind = "node", <<>>))]
    ELSE IF indent > Top([P EXCEPT !.indents = PopTo(@, indent)]).indent
    THEN ParseFails(P)
    ELSE [P EXCEPT !.indents = PopTo(@, indent)]
\* The second part: a node goes to the children of indents[-2] and takes the
\* place of indents[-1]; a property goes to the properties of indents[-2].
Parent(P) == P.indents[Len(P.indents) - 1].id
Placed(P, indent, data) ==
    IF P.status # "OK" THEN P
    ELSE IF data.kind = "node"
    THEN IF Append(Parent(P), data.key) \in DOMAIN P.props THEN ParseFails(P)
         ELSE [P EXCEPT
                 !.props = @ @@ (Append(Parent(P), data.key) :>
                                 IF data.value = PyError THEN <<>>
                                 ELSE ("type" :> data.value)),
                 !.indents = [@ EXCEPT ![Len(@)] =
                                Indent(indent, TRUE, Append(Parent(P), data.key))]]
    ELSE IF Parent(P) = <<>> THEN ParseFails(P)
    ELSE IF data.key \in DOMAIN P.props[Parent(P)] THEN ParseFails(P)
    ELSE [P EXCEPT !.props = [@ EXCEPT ![Parent(P)] = @ @@ (data.key :> data.value)]]
ParseLine(P, line, data) ==
    IF data.kind = "ValueError" THEN ParseFails(P)
    ELSE Placed(Indented(P, line.indent, data), line.indent, data)
RECURSIVE ParseLoop(_, _, _)
ParseLoop(P, text, i) ==
    IF P.status # "OK" \/ i > Len(text) THEN P
    ELSE ParseLoop(ParseLine(P, text[i], Classify(text[i].words)), text, i + 1)
\* The ParseNode of a path of names.
RECURSIVE Nested(_, _)
Nested(props, id) ==
    ParseNode(props[id],
              [n \in {<<x>> : x \in {y \in Segs : Append(id, y) \in DOMAIN props}}
                 |-> Nested(props, Append(id, n[1]))])
\* parse_tree(text): the root ParseNode, or the error.
parse_tree(text) ==
    ParseLoop(Parsing(<<Indent(-1, TRUE, <<>>)>>, (<<>> :> <<>>), "OK"), text, 1)

\* sorted() of property names.
RECURSIVE SortedKeys(_)
SortedKeys(S) ==
    IF S = {} THEN <<>>
    ELSE LET m == CHOOSE x \in S : \A y \in S : KeyRank(x) <= KeyRank(y)
         IN <<m>> \o SortedKeys(S \ {m})
\* The lines of the props in the order given: "%s = %r" for a name
\* that does not end in ' ->'; and "%s %s" for those that do.
RECURSIVE PropertyLines(_, _, _, _)
PropertyLines(props, keys, i, indent) ==
    IF i > Len(keys) THEN <<>>
    ELSE (IF KeyParts(keys[i]).op = "->" THEN <<>>
          ELSE <<Line(indent, KeyWords(keys[i]) \o <<"=">> \o repr(props[keys[i]]))>>)
         \o PropertyLines(props, keys, i + 1, indent)
RECURSIVE LinkLines(_, _, _, _)
LinkLines(props, keys, i, indent) ==
    IF i > Len(keys) THEN <<>>
    ELSE (IF KeyParts(keys[i]).op = "->"
          THEN <<Line(indent, KeyWords(keys[i]) \o props[keys[i]].words)>>
          ELSE <<>>)
         \o LinkLines(props, keys, i + 1, indent)
\* The line of the node: '/' + name, with ' : ' + type_ for a type.
NodeLine(name, props, indent) ==
    Line(indent,
         IF "type" \in DOMAIN props /\ props["type"].words # <<>>
         THEN <<"/" \o name, ":">> \o props["type"].words
         ELSE <<"/" \o name>>)
\* The inner export_tree(path, indent) with name None: nothing for an
\* ephemeral node; the root gives the lines of its children only.
RECURSIVE export_node(_, _, _)
RECURSIVE ExportChildren(_, _, _, _, _)
ExportChildren(t, id, names, i, indent) ==
    IF i > Len(names) THEN <<>>
    ELSE export_node(t, id \o names[i], indent) \o ExportChildren(t, id, names, i + 1, indent)
ExportProperties(props, keys, name, indent) ==
    <<NodeLine(name, props, indent)>>
    \o PropertyLines(props, keys, 1, indent + 2)
    \o LinkLines(props, keys, 1, indent + 2)
export_node(t, id, indent) ==
    IF id = <<>>
    THEN ExportChildren(t, id, sorted(node_children(t, <<"">> \o id)), 1, indent)
    ELSE IF t[id].eph THEN <<>>
    ELSE ExportProperties(decode_props(t[id].data),
                          SortedKeys(DOMAIN decode_props(t[id].data) \ {"type"}),
                          Last(id), indent)
         \o ExportChildren(t, id, sorted(node_children(t, <<"">> \o id)), 1, indent + 2)
\* The nodes export_tree reads and cannot show: get and get_children need
\* READ, and a type that is no string cannot be added to the name.
ExportStatus(t) ==
    IF \E n \in NodeIds : t[n].exists /\ "READ" \notin t[n].acl THEN "NOAUTH"
    ELSE IF \E n \in NodeIds \ {<<>>} :
              /\ t[n].exists
              /\ "type" \in DOMAIN decode_props(t[n].data)
              /\ decode_props(t[n].data)["type"].type # "str"
    THEN "TypeError"
    ELSE "OK"
\* export_tree('/'): the lines of the text returned.
export_tree(t) == export_node(t, <<>>, 0)

\* The lines written: nodes "/a" and "/b", one with a type, two props,
\* a node link and two property links, at four indentations.
MaxLines == 4
Indents == {0, 2, 3, 4}
TextWords ==
    {<<"/a">>, <<"/b">>, <<"/a", ":", "t">>, <<"x", "=", "1">>, <<"y", "=", "'v1'">>,
     <<"l", "->", "/b">>, <<"p", "=>", "/b">>, <<"p", "=>", "/b", "y">>}
TextLines == {Line(i, w) : i \in Indents, w \in TextWords}
\* The text parses, into nodes of the tree.
Parses(text) ==
    /\ parse_tree(text).status = "OK"
    /\ DOMAIN parse_tree(text).props \subseteq NodeIds
\* parse_tree and _import_tree of import_tree(text).
ImportParsed(t, eph, P) ==
    IF P.status # "OK" THEN ImpState(t, eph, <<>>, P.status)
    ELSE import_tree(ImpState(t, eph, <<>>, "OK"), Nested(P.props, <<>>), Slash, FALSE,
                     OPEN_ACL_UNSAFE, FALSE)

\* A line is added to the text.
WriteLine ==
    \E line \in TextLines :
       /\ last.op = "text"
       /\ Len(last.text) < MaxLines
       /\ Parses(Append(last.text, line))
       /\ last' = [last EXCEPT !.text = Append(@, line)]
       /\ UNCHANGED <<tree, ephemeral, handle, low, connected, watches, obs, armed,
                      pending, ctor, inflight>>
TextImported(S) ==
    /\ tree' = S.tree
    /\ ephemeral' = S.eph
    /\ last' = [op |-> "import", status |-> S.status, text |-> last.text]
    /\ UNCHANGED <<handle, low, connected, watches, obs, armed, pending, ctor, inflight>>
\* import_tree(text) into the empty tree.
ImportText ==
    /\ last.op = "text"
    /\ last.text # <<>>
    /\ TextImported(ImportParsed(tree, ephemeral, parse_tree(last.text)))
\* export_tree('/')
ExportText ==
    /\ last.op = "import"
    /\ last' = [op |-> "export", status |-> ExportStatus(tree), text |-> last.text,
                export |-> IF ExportStatus(tree) = "OK" THEN export_tree(tree) ELSE <<>>]
    /\ UNCHANGED <<tree, ephemeral, handle, low, connected, watches, obs, armed,
                   pending, ctor, inflight>>
TextReimported(S) ==
    /\ tree' = S.tree
    /\ ephemeral' = S.eph
    /\ last' = [op |-> "reimport", status |-> S.status, text |-> last.text,
                export |-> last.export, before |-> tree]
    /\ UNCHANGED <<handle, low, connected, watches, obs, armed, pending, ctor, inflight>>
\* import_tree of the text exported.
Reimport ==
    /\ last.op = "export"
    /\ last.status = "OK"
    /\ TextReimported(ImportParsed(tree, ephemeral, parse_tree(last.export)))

\* A text is written, imported into the empty tree, exported and imported
\* again.
InitText ==
    /\ tree = [n \in NodeIds |->
                 IF n = <<>> THEN TNode(encode_props(NoProps), OPEN_ACL_UNSAFE, FALSE)
                 ELSE TNone]
    /\ handle = Handle
    /\ low = CONNECTED_STATE
    /\ connected = TRUE
    /\ ephemeral = [p \in EphPaths |-> NoEntry]
    /\ watches = [k \in PropKeys |-> {}]
    /\ obs = [made |-> FALSE, callbacks |-> {}, props |-> NewProps(PathA)]
    /\ armed = [k \in PropKeys |-> 0]
    /\ pending = <<>>
    /\ ctor = Idle
    /\ inflight = <<>>
    /\ last = [op |-> "text", status |-> "OK", text |-> <<>>]
NextText == WriteLine \/ ImportText \/ ExportText \/ Reimport
SpecText == InitText /\ [][NextText]_vars

\* ---------------------------------------------------- session constructor

\* ZooKeeper.__init__ after "handle = init()".  In the specifications of
\* this section ctor is where the user thread is inside the constructor:
\* "window" in the first connected.wait(1), "loop" at the test of the while
\* loop, "closing" before zookeeper.close(handle), "raised" after
\* FailedConnect, and "idle" once the constructor has returned; wait is the
\* argument and logged counts the critical messages.
MaxLogged == 3
Constructing(wait) == [pc |-> "window", o |-> 1, wait |-> wait, logged |-> 0]
\* The loop without the wait argument: no connection fails the constructor.
__init__nowait(c, is_set) ==
    IF c.pc = "closing" THEN [c EXCEPT !.pc = "raised"]
    ELSE IF is_set THEN [c EXCEPT !.pc = "idle"]
    ELSE [c EXCEPT !.pc = "closing"]
\* One step of the constructor, is_set being what connected.is_set() gives:
\* the test after the first wait, a turn of the while loop (a critical
\* message and connected.wait(1)), or close and raise.
__init__(c, is_set) ==
    IF c.pc = "closing" THEN [c EXCEPT !.pc = "raised"]
    ELSE IF is_set THEN [c EXCEPT !.pc = "idle"]
    ELSE IF c.pc = "window"
    THEN [c EXCEPT !.pc = IF c.wait THEN "loop" ELSE "closing"]
    ELSE [c EXCEPT !.logged = @ + 1]

\* "connected.wait(1); if not connected.is_set(): ..."
SessionWindow ==
    /\ ctor.pc = "window"
    /\ ctor' = __init__(ctor, connected)
    /\ last' = Did("window", IF connected THEN "OK" ELSE "TIMEOUT")
    /\ UNCHANGED <<tree, handle, low, connected, ephemeral, watches, obs, armed, pending,
                   inflight>>
\* "while not connected.is_set(): logger.critical(...); connected.wait(1)"
SessionLoop ==
    /\ ctor.pc = "loop"
    /\ connected \/ ctor.logged < MaxLogged
    /\ ctor' = __init__(ctor, connected)
    /\ last' = Did("loop", IF connected THEN "OK" ELSE "CRITICAL")
    /\ UNCHANGED <<tree, handle, low, connected, ephemeral, watches, obs, armed, pending,
                   inflight>>
\* "zookeeper.close(handle); raise FailedConnect(connection_string)"
SessionFail ==
    /\ ctor.pc = "closing"
    /\ ctor' = __init__(ctor, connected)
    /\ low' = "CLOSED"
    /\ last' = Did("__init__", "FailedConnect")
    /\ UNCHANGED <<tree, handle, connected, ephemeral, watches, obs, armed, pending,
                   inflight>>

\* The constructor, the session events of the client thread and, once the
\* constructor has returned, nodes created through the session.
ConnectCalls == {x \in Calls : x.meth = "create" /\ x.path = "/e" /\ x.data = "d0"
                               /\ x.acl = OPEN_ACL_UNSAFE}
InitConnect ==
    /\ tree = [p \in Names |-> NoNode]
    /\ handle = None
    /\ low = "NEW"
    /\ connected = FALSE
    /\ ephemeral = [p \in Names |-> NoEntry]
    /\ watches = [k \in Keys |-> {}]
    /\ obs = [o \in Obs |-> FreeObs]
    /\ armed = [k \in Keys |-> 0]
    /\ pending = <<>>
    /\ ctor \in {Constructing(wait) : wait \in BOOLEAN}
    /\ inflight = <<>>
    /\ last = NoCall
NextConnect ==
    \/ SessionWindow \/ SessionLoop \/ SessionFail
    \/ Disconnect \/ Reconnect \/ Expire \/ Recover
    \/ Create(ConnectCalls, TRUE)
SpecConnect == InitConnect /\ [][NextConnect]_vars
\* The user thread goes on, and a thread waiting for the event goes on when
\* the event is set time and again.
FairSpecConnect ==
    /\ SpecConnect
    /\ WF_vars(SessionWindow \/ SessionLoop \/ SessionFail)
    /\ SF_vars((SessionWindow \/ SessionLoop) /\ connected)

\* close() of a session whose handle is None, after close() or between the
\* expiry of a session and the CONNECTED event of the next: the service
\* has no session for None, zookeeper.close raises and nothing is changed.
CloseClosed ==
    /\ ctor.pc = "idle"
    /\ handle = None
    /\ last' = Did("close", "ZooKeeperError")
    /\ UNCHANGED <<tree, handle, low, connected, ephemeral, watches, obs, armed, pending,
                   ctor, inflight>>

\* Sessions that create nodes, lose and regain their connection and are
\* closed.
CloseCalls == {x \in Calls : x.path = "/e" /\ x.acl = OPEN_ACL_UNSAFE /\ ~x.stale
                             /\ x.meth \in {"create", "set"}}
NextClose ==
    \/ Create(CloseCalls, TRUE) \/ Set(CloseCalls, TRUE)
    \/ Disconnect \/ Reconnect \/ Expire \/ Recover
    \/ Close \/ CloseClosed
SpecClose == Init /\ [][NextClose]_vars

\* ------------------------------------------------ threads and the registry

\* The user's thread and the client's thread inside the methods of the
\* WatchManager and of the observers of one key.  In the specifications of
\* this section watches is the WatchManager (its lock, and the set of its
\* data under the key with the thread that made the set), obs gives each
\* observer's callbacks and whether it is alive, and ctor gives for each
\* thread the frame it is in.
Threads == {"user", "client"}
ThreadCBs == {"f", "g"}
\* threading.Lock: acquire waits until the lock is free.
acquire_unlocked(w, t) == [ok |-> TRUE, w |-> w]
acquire(w, t) == [ok |-> w.lock = "free", w |-> [w EXCEPT !.lock = t]]
release_held(w, t) == w
release(w, t) == [w EXCEPT !.lock = "free"]
\* pop, watches and clear leave their "with self.lock" block before the
\* loop that yields.
WithExit_yielding(w, t) == w
WithExit(w, t) == release(w, t)

\* A thread's frame: the statement it is at, the operation it is in, the
\* observer and callback at hand, the observers left of a pop() or clear(),
\* those left of a watches(), the callbacks left of list(self.callbacks),
\* and in add() the set found or made and newkey.
Frame(pc, op) ==
    [pc |-> pc, op |-> op, o |-> 1, cb |-> "f", outer |-> {}, todo |-> {}, cbs |-> {},
     refs |-> "none", newkey |-> FALSE]
IdleFrame == Frame("idle", "none")
\* An observer: where is "new" before add, "registered" from refs.add(ref)
\* on and "yielded" once a pop() or clear() has taken it.
ThreadObs(where, callbacks) == [live |-> TRUE, where |-> where, callbacks |-> callbacks]
\* [ref() for ref in refs], without the None of the dead.
LiveRefs(w, ob) == IF w.present THEN {o \in w.refs : ob[o].live} ELSE {}
\* The observers a frame refers to; the old values of clear() are weak
\* references until they are yielded.
Held(f) ==
    (IF f.op = "recover" THEN {} ELSE f.outer) \cup f.todo
       \cup (IF f.pc \in {"idle", "clear.new", "clear.unlock", "loop"} THEN {} ELSE {f.o})

\* The steps of a thread leave the service's nodes and the session as they
\* are; n is the number of handlers the service then holds for the key.
ThreadKey == <<CHILD_EVENT, Root>>
ThreadArm(t, f, w, ob, did, n) ==
    /\ ctor' = [ctor EXCEPT ![t] = f]
    /\ watches' = w
    /\ obs' = ob
    /\ last' = did
    /\ armed' = [armed EXCEPT ![ThreadKey] = n]
    /\ UNCHANGED <<tree, handle, low, connected, ephemeral, pending, inflight>>
ThreadStep(t, f, w, ob, did) == ThreadArm(t, f, w, ob, did, armed[ThreadKey])
At(t, pc) == ctor[t].pc = pc
Stepped(t, pc) == [op |-> "step", thread |-> t, pc |-> pc]

\* children(path) or properties(path): _watch(watch) begins with
\* self.watches.add(key, watch).
Construct ==
    \E o \in Obs :
       /\ At("user", "idle")
       /\ obs[o].live /\ obs[o].where = "new"
       /\ ThreadStep("user", [Frame("add.lookup", "construct") EXCEPT !.o = o], watches, obs,
                     Stepped("user", "construct"))
\* add: "with self.lock: try: refs = self.data[key]"
AddLookup ==
    \E t \in Threads :
       /\ At(t, "add.lookup")
       /\ acquire(watches, t).ok
       /\ ThreadStep(t,
                     IF watches.present
                     THEN [ctor[t] EXCEPT !.pc = "add.add", !.refs = watches.id,
                                          !.newkey = FALSE]
                     ELSE [ctor[t] EXCEPT !.pc = "add.create", !.newkey = FALSE],
                     acquire(watches, t).w, obs, Stepped(t, "add.lookup"))
\* add: "except KeyError: self.data[key] = refs = set(); newkey = True"
AddCreate ==
    \E t \in Threads :
       /\ At(t, "add.create")
       /\ ThreadStep(t, [ctor[t] EXCEPT !.pc = "add.add", !.refs = t, !.newkey = TRUE],
                     [watches EXCEPT !.present = TRUE, !.id = t, !.refs = {},
                                     !.news = @ + 1],
                     obs, Stepped(t, "add.create"))
\* add: "refs.add(ref)": into the set of the registry if refs is that set.
AddAdd ==
    \E t \in Threads :
       /\ At(t, "add.add")
       /\ ThreadStep(t, [ctor[t] EXCEPT !.pc = "add.unlock"],
                     IF watches.present /\ watches.id = ctor[t].refs
                     THEN [watches EXCEPT !.refs = @ \cup {ctor[t].o}]
                     ELSE watches,
                     [obs EXCEPT ![ctor[t].o].where = "registered"],
                     Stepped(t, "add.add"))
\* add: the lock is released and newkey returned; _watch goes on with
\* _watchkey(key) for a new key and with watch._notify(...) otherwise.
AddUnlock ==
    \E t \in Threads :
       /\ At(t, "add.unlock")
       /\ ThreadStep(t,
                     IF ctor[t].newkey THEN [ctor[t] EXCEPT !.pc = "contains"]
                     ELSE [ctor[t] EXCEPT !.pc = "notify", !.todo = {ctor[t].o}],
                     release(watches, t), obs,
                     [op |-> "add", thread |-> t, o |-> ctor[t].o, newkey |-> ctor[t].newkey])
\* handler: "if key not in self.watches: return"; __contains__ takes the
\* lock for its one statement.  Then _rewatch(key), or zkfunc(self.handle,
\* real_path, handler), which leaves the handler with the service.
Contains ==
    \E t \in Threads :
       /\ At(t, "contains")
       /\ acquire(watches, t).ok
       /\ ThreadArm(t,
                    IF watches.present
                    THEN [ctor[t] EXCEPT !.pc = IF ctor[t].op = "deleted" THEN "pop"
                                                ELSE "watches"]
                    ELSE [ctor[t] EXCEPT !.pc = "notify", !.todo = {}],
                    release(acquire(watches, t).w, t), obs, Stepped(t, "contains"),
                    IF watches.present /\ ctor[t].op # "deleted"
                    THEN armed[ThreadKey] + 1 ELSE armed[ThreadKey])
\* watches(key): "with self.lock: watches = [ref() for ref in ...]"
Watches ==
    \E t \in Threads :
       /\ At(t, "watches")
       /\ acquire(watches, t).ok
       /\ ThreadStep(t, [ctor[t] EXCEPT !.pc = "watches.unlock",
                                        !.todo = LiveRefs(watches, obs)],
                     acquire(watches, t).w, obs, Stepped(t, "watches"))
\* watches(key): the lock is released before the first watch is yielded.
WatchesUnlock ==
    \E t \in Threads :
       /\ At(t, "watches.unlock")
       /\ ThreadStep(t, [ctor[t] EXCEPT !.pc = "notify"], WithExit(watches, t), obs,
                     Stepped(t, "watches.unlock"))
\* "for watch in ...: watch._notify(v)": the next watch and the list of its
\* callbacks; after the last one the pop() or clear() loop goes on, or the
\* thread is done.
NotifyNext ==
    \E t \in Threads :
       /\ At(t, "notify")
       /\ \/ /\ ctor[t].todo = {}
             /\ ThreadStep(t,
                           IF ctor[t].op \in {"deleted", "recover"}
                           THEN [ctor[t] EXCEPT !.pc = "loop"]
                           ELSE IdleFrame,
                           watches, obs, Stepped(t, "notified"))
          \/ \E o \in ctor[t].todo :
                ThreadStep(t, [ctor[t] EXCEPT !.pc = "callbacks", !.o = o,
                                              !.todo = @ \ {o},
                                              !.cbs = obs[o].callbacks],
                           watches, obs, Stepped(t, "notify"))
\* _notify and _deleted: the next callback is called.
CallbackBegin ==
    \E t \in Threads :
       /\ At(t, "callbacks")
       /\ \/ /\ ctor[t].cbs = {}
             /\ ThreadStep(t, [ctor[t] EXCEPT !.pc = "notify"], watches, obs,
                           Stepped(t, "callbacks"))
          \/ \E cb \in ctor[t].cbs :
                ThreadStep(t, [ctor[t] EXCEPT !.pc = "callback", !.cb = cb,
                                              !.cbs = @ \ {cb}],
                           watches, obs,
                           [op |-> "callback", thread |-> t, o |-> ctor[t].o, cb |-> cb])
\* The callback returns; observer(func) appends func after it.
CallbackEnd ==
    \E t \in Threads :
       /\ At(t, "callback")
       /\ ThreadStep(t,
                     IF ctor[t].op = "__call__" THEN IdleFrame
                     ELSE [ctor[t] EXCEPT !.pc = "callbacks"],
                     watches,
                     IF ctor[t].op = "__call__"
                     THEN [obs EXCEPT ![ctor[t].o].callbacks = @ \cup {ctor[t].cb}]
                     ELSE obs,
                     Stepped(t, "returned"))
\* observer(func): func(self) on the user's thread.
ThreadSubscribe ==
    \E o \in Obs, cb \in ThreadCBs :
       /\ At("user", "idle")
       /\ obs[o].live /\ obs[o].where # "new"
       /\ cb \notin obs[o].callbacks
       /\ ThreadStep("user", [Frame("callback", "__call__") EXCEPT !.o = o, !.cb = cb],
                     watches, obs,
                     [op |-> "callback", thread |-> "user", o |-> o, cb |-> cb])

\* A watch event of the key on the client's thread: the handler.
ThreadEvent ==
    /\ At("client", "idle")
    /\ armed[ThreadKey] > 0
    /\ ThreadArm("client", Frame("contains", "handler"), watches, obs,
                 Stepped("client", "event"), armed[ThreadKey] - 1)
\* A DELETED_EVENT, or NoNodeException from zkfunc: the handler calls
\* _rewatch(key).
ThreadDeleted ==
    /\ At("client", "idle")
    /\ armed[ThreadKey] > 0
    /\ ThreadArm("client", Frame("contains", "deleted"), watches, obs,
                 Stepped("client", "deleted"), armed[ThreadKey] - 1)
\* pop(key): "with self.lock: watches = [ref() for ref in
\* self.data.pop(key, ())]"
Pop ==
    \E t \in Threads :
       /\ At(t, "pop")
       /\ acquire(watches, t).ok
       /\ ThreadStep(t, [ctor[t] EXCEPT !.pc = "pop.unlock",
                                        !.outer = LiveRefs(watches, obs)],
                     [acquire(watches, t).w EXCEPT !.present = FALSE, !.id = "none",
                                                   !.refs = {}, !.news = 0],
                     [o \in Obs |-> IF o \in LiveRefs(watches, obs)
                                    THEN [obs[o] EXCEPT !.where = "yielded"] ELSE obs[o]],
                     Stepped(t, "pop"))
\* pop(key) and clear(): the lock is released before the first watch is
\* yielded.
PopUnlock ==
    \E t \in Threads :
       /\ ctor[t].pc \in {"pop.unlock", "clear.unlock"}
       /\ ThreadStep(t, [ctor[t] EXCEPT !.pc = "loop"], WithExit(watches, t), obs,
                     [op |-> IF At(t, "pop.unlock") THEN "pop" ELSE "clear",
                      thread |-> t, yielded |-> ctor[t].outer])
\* "for watch in self.watches.pop(key)" of _rewatch and "for watch in
\* self.watches.clear()" of watch_session: the watch is told that its path
\* went away (only in _rewatch) or is watched again; a reference of clear()
\* that has died meanwhile is passed over.
LoopNext ==
    \E t \in Threads :
       /\ At(t, "loop")
       /\ \/ /\ ctor[t].outer = {}
             /\ ThreadStep(t, IdleFrame, watches, obs, Stepped(t, "looped"))
          \/ \E o \in ctor[t].outer :
                /\ ~obs[o].live
                /\ ThreadStep(t, [ctor[t] EXCEPT !.outer = @ \ {o}], watches, obs,
                              Stepped(t, "skipped"))
          \/ \E o \in ctor[t].outer :
                /\ obs[o].live
                /\ ctor[t].op = "deleted"
                /\ ThreadStep(t, [ctor[t] EXCEPT !.pc = "callbacks", !.o = o,
                                                 !.outer = @ \ {o}, !.todo = {},
                                                 !.cbs = obs[o].callbacks],
                              watches, obs, Stepped(t, "_deleted"))
          \/ \E o \in ctor[t].outer :
                /\ obs[o].live
                /\ ThreadStep(t, [ctor[t] EXCEPT !.pc = "add.lookup", !.o = o,
                                                 !.outer = @ \ {o}],
                              watches, obs, Stepped(t, "_watch"))
\* watch_session after an expired session, whose handlers are gone with
\* it: clear() begins with "with self.lock: old = self.data".
ThreadRecover ==
    /\ At("client", "idle")
    /\ acquire(watches, "client").ok
    /\ ThreadArm("client", Frame("clear.new", "recover"), acquire(watches, "client").w, obs,
                 Stepped("client", "clear"), 0)
\* clear(): "self.data = {}"; the old values are what it yields.
ClearNew ==
    \E t \in Threads :
       /\ At(t, "clear.new")
       /\ ThreadStep(t, [ctor[t] EXCEPT !.pc = "clear.unlock",
                                        !.outer = LiveRefs(watches, obs)],
                     [watches EXCEPT !.present = FALSE, !.id = "none", !.refs = {},
                                     !.news = 0],
                     [o \in Obs |-> IF o \in LiveRefs(watches, obs)
                                    THEN [obs[o] EXCEPT !.where = "yielded"] ELSE obs[o]],
                     Stepped(t, "clear.new"))
\* The user lets go of an observer that no frame holds: ref() is None from
\* now on and the thread is in _remove(ref).
ThreadDrop ==
    \E o \in Obs :
       /\ At("user", "idle")
       /\ obs[o].live /\ obs[o].where # "new"
       /\ o \notin Held(ctor["client"])
       /\ ThreadStep("user", [Frame("remove", "drop") EXCEPT !.o = o], watches,
                     [obs EXCEPT ![o].live = FALSE], Stepped("user", "drop"))
\* _remove: "with self.lock: ... refs.remove(ref); if not refs: del
\* self.data[key]"
Remove ==
    \E t \in Threads :
       /\ At(t, "remove")
       /\ acquire(watches, t).ok
       /\ ThreadStep(t, IdleFrame,
                     release(IF watches.present /\ ctor[t].o \in watches.refs
                             THEN IF watches.refs = {ctor[t].o}
                                  THEN [acquire(watches, t).w EXCEPT
                                           !.present = FALSE, !.id = "none",
                                           !.refs = {}, !.news = 0]
                                  ELSE [acquire(watches, t).w EXCEPT
                                           !.refs = @ \ {ctor[t].o}]
                             ELSE acquire(watches, t).w, t),
                     obs, Stepped(t, "remove"))

\* Both threads idle, nothing registered, the lock free.
InitThreads ==
    /\ tree = [p \in Names |-> NoNode]
    /\ handle = Handle
    /\ low = CONNECTED_STATE
    /\ connected = TRUE
    /\ ephemeral = [p \in Names |-> NoEntry]
    /\ watches = [lock |-> "free", present |-> FALSE, id |-> "none", refs |-> {}, news |-> 0]
    /\ obs = [o \in Obs |-> ThreadObs("new", {})]
    /\ armed = [k \in Keys |-> 0]
    /\ pending = <<>>
    /\ ctor = [t \in Threads |-> IdleFrame]
    /\ inflight = <<>>
    /\ last = Stepped("user", "init")
NextThreads ==
    \/ Construct
    \/ AddLookup
    \/ AddCreate
    \/ AddAdd
    \/ AddUnlock
    \/ Contains
    \/ Watches
    \/ WatchesUnlock
    \/ NotifyNext
    \/ CallbackBegin
    \/ CallbackEnd
    \/ ThreadSubscribe
    \/ ThreadEvent
    \/ ThreadDeleted
    \/ Pop
    \/ PopUnlock
    \/ LoopNext
    \/ ThreadRecover
    \/ ClearNew
    \/ ThreadDrop
    \/ Remove
SpecThreads == InitThreads /\ [][NextThreads]_vars

\* ------------------------------------------- threads and the bookkeeping

\* _async with completion None, statement by statement on the user's
\* thread, beside watch_session on the client's thread.  ctor tells whether
\* the user's thread is between the two statements, and with which call.
Posting(c) == [pc |-> "post", o |-> 1, call |-> c]
SessionCalls ==
    {x \in Calls : /\ x.acl = OPEN_ACL_UNSAFE /\ ~x.stale
                   /\ \/ x.meth \in {"create", "delete"} /\ x.data = "d0"
                      \/ x.meth = "set" /\ x.data = "d1"}
\* "result = getattr(zookeeper, meth)(self.handle, *args)": a call that
\* raises ends _async.
CallService ==
    \E c \in SessionCalls :
       /\ ctor.pc = "idle"
       /\ tree' = ZkCall(tree, handle, low, c).tree
       /\ armed' = Fire(armed, pending, ZkCall(tree, handle, low, c).events).armed
       /\ pending' = Fire(armed, pending, ZkCall(tree, handle, low, c).events).pending
       /\ ctor' = IF ZkCall(tree, handle, low, c).status = "OK" THEN Posting(c) ELSE Idle
       /\ last' = [op |-> "service", status |-> ZkCall(tree, handle, low, c).status,
                   call |-> c]
       /\ UNCHANGED <<handle, low, connected, ephemeral, watches, obs, inflight>>
\* "post(*args)", then the result is returned.
CallPost ==
    /\ ctor.pc = "post"
    /\ ephemeral' = post(ephemeral, ctor.call)
    /\ ctor' = Idle
    /\ last' = [op |-> "call", status |-> "OK", call |-> ctor.call]
    /\ UNCHANGED <<tree, handle, low, connected, watches, obs, armed, pending, inflight>>

NextSession ==
    \/ CallService
    \/ CallPost
    \/ Disconnect
    \/ Reconnect
    \/ Expire
    \/ Recover
SpecSession == Init /\ [][NextSession]_vars

\* C21: after import_tree(text, base, acl=A, dry_run=False) has returned
\* without error, every node of the parsed text is there at base plus its
\* path, with the encoding of its properties as payload and with the ACL A.
C21_ImportPostcondition ==
    (last.op = "import" /\ last.status = "OK" /\ ~last.input.dry_run)
    => \A d \in DslNodes(StripSlashes(last.input.path), last.input.node) :
          /\ tree[NodeOf(d.path)].exists
          /\ tree[NodeOf(d.path)].data = encode_props(d.node.properties)
          /\ tree[NodeOf(d.path)].acl = last.input.acl

\* C22: a dry run of import_tree, with any text, base path and trim value,
\* and a dry run of delete_recursive, forced or not, issues no create, set,
\* set_acl or delete and leaves the nodes, their payloads and ACLs and the
\* remembered ephemerals as they were.
DryRunStep ==
    /\ last'.op \in {"import", "delete_recursive"}
    /\ last'.input.dry_run
C22_DryRunChangesNothing ==
    [][DryRunStep => /\ last'.calls = <<>>
                     /\ tree' = tree
                     /\ ephemeral' = ephemeral]_vars
\* A dry run of import_tree with trim over a tree that holds a node the text
\* does not name and a node whose properties differ from the text's.
C22_DryRunOverDifferences ==
    /\ last.op = "import"
    /\ last.status = "OK"
    /\ last.input.dry_run /\ Truthy(last.input.trim)
    /\ last.input.path = Slash
    /\ <<"a">> \in DOMAIN last.input.node.children
    /\ <<"b">> \notin DOMAIN last.input.node.children[<<"a">>].children
    /\ tree[<<"a", "b">>].exists
    /\ tree[<<"a">>].data # encode_props(last.input.node.children[<<"a">>].properties)
    /\ \E p \in EphPaths : ephemeral[p].present

\* The nodes at and below a node, and whether one of them is ephemeral.
IsPrefix(n, m) == Len(n) <= Len(m) /\ SubSeq(m, 1, Len(n)) = n
Subtree(n) == {m \in NodeIds : IsPrefix(n, m)}
EphemeralBelow(t, n) == \E m \in Subtree(n) : t[m].exists /\ t[m].eph
\* A call delete_recursive(path, dry_run=False, force=F) has returned.
DeletedStep ==
    /\ last'.op = "delete_recursive"
    /\ last'.status = "OK"
    /\ ~last'.input.dry_run
\* The i-th call issued was a delete, and every node that was below its
\* node had been deleted by an earlier call.
ChildrenFirst(t, calls, i) ==
    /\ calls[i][1] = "delete"
    /\ \A m \in Subtree(NodeOf(calls[i][2])) \ {NodeOf(calls[i][2])} :
          t[m].exists => \E j \in 1..(i - 1) : NodeOf(calls[j][2]) = m

\* C23: after delete_recursive(path, dry_run=False, force=F) a node of the
\* subtree at path is still there if and only if F is false and the node is
\* ephemeral or has an ephemeral descendant; with force the whole subtree
\* is gone; and each delete is issued after the deletes of all the nodes
\* below its node.
C23_DeleteSurvivalSet ==
    [][DeletedStep
       => /\ \A n \in Subtree(NodeOf(last'.input.path)) :
                tree[n].exists
                => (tree'[n].exists <=> (~last'.input.force /\ EphemeralBelow(tree, n)))
          /\ \A n \in NodeIds : tree'[n].exists => tree[n].exists
          /\ \A i \in 1..Len(last'.calls) : ChildrenFirst(tree, last'.calls, i)]_vars
\* Without force, "/a/a" was deleted while the ephemeral "/a/b" and "/a"
\* above it stayed.
C23_EphemeralChainKept ==
    /\ last.op = "delete_recursive"
    /\ last.status = "OK"
    /\ last.input = DeleteInput(PathA, FALSE, FALSE)
    /\ last.calls = << <<"delete", <<"", "a", "a">> >> >>
    /\ tree[<<"a">>].exists /\ ~tree[<<"a">>].eph
    /\ tree[<<"a", "b">>].exists /\ tree[<<"a", "b">>].eph
    /\ ~tree[<<"a", "a">>].exists

\* The place of a line's property among those of its node: names that end
\* in ' ->' after the others, and by name within each group.
LinePlace(line) ==
    IF Classify(line.words).kind # "data" THEN -1
    ELSE KeyRank(Classify(line.words).key)
         + (IF KeyParts(Classify(line.words).key).op = "->" THEN 100 ELSE 0)
\* Lines indented by two blanks a level, the properties of a node before
\* its links and each kind in the order of the names.
CanonicalLayout(text) ==
    /\ text # <<>> => text[1].indent = 0
    /\ \A i \in 1..Len(text) : text[i].indent % 2 = 0
    /\ \A i \in 2..Len(text) :
          /\ text[i].indent <= text[i - 1].indent + 2
          /\ (LinePlace(text[i - 1]) >= 0 /\ LinePlace(text[i]) >= 0)
             => (text[i].indent = text[i - 1].indent
                 /\ LinePlace(text[i - 1]) < LinePlace(text[i]))

\* C24: the export of the tree that import_tree(T) made out of the empty
\* tree is the canonical form of T: it parses into the nodes, properties
\* and links of T and is laid out with two blanks a level, names in order
\* and properties before links; and importing the export leaves the tree as
\* it was.
C24_ImportExportRoundTrip ==
    /\ last.op = "import" => last.status = "OK"
    /\ last.op = "export"
       => /\ last.status = "OK"
          /\ parse_tree(last.export).status = "OK"
          /\ parse_tree(last.export).props = parse_tree(last.text).props
          /\ CanonicalLayout(last.export)
    /\ last.op = "reimport" => (last.status = "OK" /\ tree = last.before)

\* The constructor is running, and it has returned.
InConstructor == ctor.pc \in {"window", "loop", "closing"}
Constructed == ctor.pc = "idle"
C26_CloseIdempotent ==
    [][last'.op = "close"
       => /\ last'.status = "OK"
          /\ handle' = None
          /\ low' = "CLOSED"
          /\ handle = None
             => UNCHANGED <<tree, handle, low, connected, ephemeral, watches, obs, armed,
                            pending, ctor, inflight>>]_vars

\* C27: for any one observer no two callback invocations overlap: the
\* user's thread is never inside func(self) of observer(func) while the
\* client's thread is inside a callback of the same observer.
C27_CallbacksSerialized ==
    \A t, u \in Threads :
       (t # u /\ ctor[t].pc = "callback" /\ ctor[u].pc = "callback")
          => ctor[t].o # ctor[u].o

\* C29: whenever a thread is inside a user-supplied callback (called from
\* _notify, _deleted or observer(func)), that thread does not hold the
\* registry's lock.
C29_NoLockAcrossCallbacks ==
    \A t \in Threads : ctor[t].pc = "callback" => watches.lock # t
\* The client's thread is inside a callback of _notify while the user's
\* thread holds the lock in add.
C29_CallbackBesideAdd ==
    /\ ctor["client"].pc = "callback"
    /\ ctor["client"].op = "handler"
    /\ watches.lock = "user"

\* C30: a live observer is in the registry exactly when refs.add(ref) has
\* put it there and no pop or clear has yielded it since; what a pop or
\* clear has yielded is not in the registry after it; and while the key is
\* present exactly one add has found it new.
C30_AtomicPopAndClear ==
    /\ \A o \in Obs :
          obs[o].live =>
             ((obs[o].where = "registered") <=> (watches.present /\ o \in watches.refs))
    /\ last.op \in {"pop", "clear"} =>
          \A o \in last.yielded : obs[o].where = "yielded" /\ o \notin watches.refs
    /\ watches.present => watches.news = 1
\* A pop has yielded the first observer while the user's thread was
\* waiting in add with the second.
C30_PopBesideAdd ==
    /\ last.op = "pop"
    /\ last.yielded = {1}
    /\ ctor["user"].pc = "add.lookup"
    /\ ctor["user"].o = 2

\* C28: the user's bookkeeping never interleaves with the client thread's
\* session handling so that an entry is lost or skipped: once the user's
\* call has returned and the session is connected, every remembered
\* ephemeral node exists in the service as an ephemeral node with the
\* remembered data, and every ephemeral node of the session is remembered.
C28_NoEntryLostOrSkipped ==
    (ctor.pc = "idle" /\ handle # None /\ low = CONNECTED_STATE /\ connected) =>
       \A p \in Names :
          /\ ephemeral[p].present =>
                tree[p].exists /\ tree[p].eph /\ tree[p].data = ephemeral[p].data
          /\ (tree[p].exists /\ tree[p].eph) => ephemeral[p].present


\* ------------------------------------------------ races of watch arming

\* The constructor of an observer returns or raises in this step, the
\* connection being lost (the handle is still there) since _watch resolved
\* the path and added the key to the registry.
ArmingLost ==
    /\ ctor.pc # "idle"
    /\ ctor'.pc = "idle"
    /\ handle # None
    /\ low # CONNECTED_STATE

\* C31: when the connection is lost between the registry's add and the
\* installation of the primitive watch, the key leaves the registry and
\* every observer that was registered under it is marked deleted with an
\* empty snapshot: nothing stays registered under the unarmed key.
C31_StaleWatchDropped ==
    [][ArmingLost =>
          LET key == KeyOf(obs[ctor.o])
          IN /\ watches'[key] = {}
             /\ \A q \in watches[key] \ {ctor.o} :
                   obs'[q].deleted /\ obs'[q].data = EmptyDict]_vars

\* ------------------------------------------------- a node link rewritten

\* An observer of "/a/b" while the link "/a/b ->" is set to "/b" and to
\* "/a/a", both nodes being there or not.
PathAA == <<"", "a", "a">>
RelinkKeys == {<<CHANGED_EVENT, path>> : path \in {PathAB, PathB, PathAA}}
RelinkCalls ==
    {LinkedCall("create", PathB, "b0", NoTarget), LinkedCall("create", PathAA, "aa0", NoTarget),
     LinkedCall("delete", PathB, "", NoTarget), LinkedCall("set", PathAA, "aa1", NoTarget),
     LinkedCall("set", PathB, "b1", NoTarget),
     LinkedCall("set", PathA, "", PathB), LinkedCall("set", PathA, "", PathAA)}
InitRelink ==
    /\ tree = [n \in NodeIds |->
                 IF n = <<>> THEN DataNode(TRUE, NoLinks, "")
                 ELSE IF n = <<"a">> THEN DataNode(TRUE, [x \in {"b"} |-> PathB], "")
                 ELSE DataNode(FALSE, NoLinks, "")]
    /\ handle = Handle
    /\ low = CONNECTED_STATE
    /\ connected = TRUE
    /\ ephemeral = [p \in Names |-> NoEntry]
    /\ watches = [k \in RelinkKeys |-> {}]
    /\ obs = [o \in Obs |-> FreeObs]
    /\ armed = [k \in RelinkKeys |-> 0]
    /\ pending = <<>>
    /\ ctor = Idle
    /\ inflight = <<>>
    /\ last = NoCall
NextRelink ==
    \/ LinkedLocalCall(RelinkCalls) \/ LinkedCtor({PathAB}) \/ Subscribe(RewatchCBs)
    \/ LinkedDeliver
SpecRelink == InitRelink /\ [][NextRelink]_vars

\* ------------------------------------------------ dots in resolved paths

\* Paths with "/.", "/.." and a trailing "/" in them, over the trees with
\* node links.
DotPaths ==
    {<<"", "a", "b", "..">>, <<"", "a", ".", "b">>, <<"", "a", "..", "b">>,
     <<"", "a", "a", "..", "b">>, <<"", "a", "b", ".">>, <<"", "a", "">>,
     <<"", "a", "b", "">>, <<"", "a", "a", "..">>}
NextDots == Resolve(DotPaths)
SpecDots == InitResolve /\ [][NextDots]_vars

\* ------------------------------------------------- the trim modes of import

\* import_tree that writes, with trim True, False (the default) or None, over
\* the trees that the session's own nodes make.
TrimInputs ==
    {i \in {ImportInput(node, path, trim, OPEN_ACL_UNSAFE, FALSE) :
               node \in ParseTrees, path \in {Slash, PathA}, trim \in TrimModes} :
        \A d \in DslNodes(StripSlashes(i.path), i.node) : NodeOf(d.path) \in NodeIds}
NextTrim == ImportTree(TrimInputs) \/ TreeCreate(MakeInputs)
SpecTrim == InitTree /\ [][NextTrim]_vars

\* ------------------------------------------ observers dropped and made anew

\* Observers made, dropped and made again while the session stays connected;
\* this session changes the nodes.
NextPurge ==
    \/ Create(ObserveCalls, FALSE) \/ Delete(ObserveCalls, FALSE) \/ Set(ObserveCalls, FALSE)
    \/ CtorBegin(ObserveKeys, MaxObs) \/ CtorCheck \/ CtorRead \/ Drop \/ Deliver
SpecPurge == Init /\ [][NextPurge]_vars

\* ------------------------------------------------ the connection suspended

\* The type of the event that tells a handler of the session's state.
SESSION_EVENT == "SESSION"
\* A handler that goes on whatever state it is called with.
handler_any_state(C, key, type, st, t, reraise) == handler(C, key, type, t, reraise)
\* ZooKeeper._watchkey's handler called with state st: "if state !=
\* zookeeper.CONNECTED_STATE: logger.warning(...); return".
handler_in_state(C, key, type, st, t, reraise) ==
    IF st # CONNECTED_STATE THEN C ELSE handler(C, key, type, t, reraise)

\* While the connection is suspended the client calls an armed handler with
\* the session event and the state CONNECTING; the handler stays armed.
SessionEventToHandler ==
    /\ handle # None
    /\ low # CONNECTED_STATE
    /\ \E key \in Keys :
         /\ armed[key] >= 1
         /\ LET D == handler_in_state(Ctx(watches, obs, armed, pending), key,
                                      SESSION_EVENT, low, tree, FALSE)
            IN /\ watches' = D.watches
               /\ obs' = D.obs
               /\ armed' = D.armed
               /\ pending' = D.pending
               /\ ArmedOK(D.armed, D.pending)
         /\ last' = [op |-> "session_event", status |-> "OK", key |-> key]
    /\ UNCHANGED <<tree, handle, low, connected, ephemeral, ctor, inflight>>

\* Observers with a callback and nodes, ephemeral ones among them, of a
\* session that is suspended and resumed but never expires; another session
\* changes the nodes meanwhile.
TransientCalls == {x \in Calls : x.path = "/e" /\ x.acl = OPEN_ACL_UNSAFE /\ ~x.stale
                                 /\ x.meth # "set_acl"}
NextTransient ==
    \/ Create(TransientCalls, FALSE) \/ Delete(TransientCalls, FALSE)
    \/ Set(TransientCalls, FALSE)
    \/ CtorBegin(ObserveKeys, MaxObs) \/ CtorCheck \/ CtorRead \/ Subscribe({"good"})
    \/ Deliver \/ Disconnect \/ Reconnect \/ SessionEventToHandler
    \/ Other(OtherCalls \cap ObserveCalls)
SpecTransient == Init /\ [][NextTransient]_vars

\* ------------------------------------------- writes that the store refuses

\* Another session deletes the node of the object and creates it again.
PropsCallsGone ==
    {PropsCall("delete", PathA, encode_props(NoProps)),
     PropsCall("create", PathA, encode_props(PropDict("v1", NoLink)))}
\* Writes through the object, to a node that may be gone.
NextPropsFail ==
    \/ PropsLocalCall(PropsCallsGone) \/ PropsCtor \/ PropsSet(SetDicts)
    \/ PropsUpdate(UpdateDicts) \/ PropsDeliver
SpecPropsFail == InitProps /\ [][NextPropsFail]_vars

\* C32: once the watch events fired so far are handled, an observer whose
\* original path resolves, the node it was resolved to before still being
\* there, is registered under the path its original path resolves to now,
\* with the watch of that key armed and that node's value as its snapshot.
C32_ReArmedOnChangedResolution ==
    \A o \in Obs :
       (obs[o].live /\ ~obs[o].deleted /\ pending = <<>>
        /\ exists(tree, obs[o].real_path) = "YES"
        /\ Resolving_resolve(tree, obs[o].path, <<>>, MaxDepth).status = "OK")
          => /\ obs[o].real_path = Resolving_resolve(tree, obs[o].path, <<>>, MaxDepth).path
             /\ o \in watches[<<CHANGED_EVENT, obs[o].real_path>>]
             /\ armed[<<CHANGED_EVENT, obs[o].real_path>>] >= 1
             /\ obs[o].data = LinkedSnapshot(tree, obs[o].real_path)

\* The path as text with "/./" collapsed to "/", "/<name>/../" collapsed to
\* "/" and a trailing "/" stripped: segs are the segments kept so far.
RECURSIVE Collapse(_, _, _)
Collapse(path, i, segs) ==
    IF i > Len(path) THEN (IF segs = <<>> THEN Slash ELSE <<"">> \o segs)
    ELSE IF path[i] \in {"", "."} THEN Collapse(path, i + 1, segs)
    ELSE IF path[i] = ".." /\ segs # <<>> THEN Collapse(path, i + 1, Front(segs))
    ELSE Collapse(path, i + 1, Append(segs, path[i]))
Normalized(path) == IF StartsWithSlash(path) THEN Collapse(path, 2, <<>>) ELSE path

\* C33: resolve(p) gives what resolve gives for p normalized as text: dots
\* and "<name>/.." are taken out before any node or link is looked up, and
\* a trailing "/" is stripped.
C33_TextualNormalization ==
    last.op = "resolve" =>
       /\ last.status = Resolving_resolve(tree, Normalized(last.path), <<>>, MaxDepth).status
       /\ last.status = "OK" =>
             last.result = Resolving_resolve(tree, Normalized(last.path), <<>>, MaxDepth).path

\* The live children, in tree t, of the nodes that the text names below path
\* (and that exist), left unnamed by the text at every level.
Extras(t, path, node) ==
    UNION {{join(d.path, n) : n \in node_children(t, d.path) \ DOMAIN d.node.children}
             : d \in {e \in DslNodes(path, node) : t[NodeOf(e.path)].exists}}
    \ {d.path : d \in DslNodes(path, node)}
Printed(out, cpath) == \E i \in 1..Len(out) : out[i] = cpath
DeleteIssued(calls, cpath) == \E i \in 1..Len(calls) : calls[i] = <<"delete", cpath>>
TrimStep ==
    /\ last'.op = "import"
    /\ last'.status = "OK"
    /\ last'.input \in TrimInputs
\* C34: an import handles every live child that the text leaves unnamed
\* below a node it names by the trim mode: with trim False nothing is deleted
\* and nothing is printed, with trim None "extra path not trimmed:" is
\* printed with its path and nothing is deleted, with trim True nothing is
\* printed and the child is deleted unless it is ephemeral.
C34_TrimModes ==
    [][TrimStep =>
         \A e \in Extras(tree, StripSlashes(last'.input.path), last'.input.node) :
            /\ last'.input.trim = "False" =>
                  /\ ~DeleteIssued(last'.calls, e)
                  /\ ~Printed(last'.untrimmed, e)
            /\ last'.input.trim = "None" =>
                  /\ ~DeleteIssued(last'.calls, e)
                  /\ Printed(last'.untrimmed, e)
            /\ last'.input.trim = "True" =>
                  /\ ~Printed(last'.untrimmed, e)
                  /\ DeleteIssued(last'.calls, e) <=> ~tree[NodeOf(e)].eph]_vars
\* The same for the modes None and True alone.
C34_NoneAndTrue ==
    [][TrimStep /\ last'.input.trim # "False" =>
         \A e \in Extras(tree, StripSlashes(last'.input.path), last'.input.node) :
            /\ last'.input.trim = "None" =>
                  /\ ~DeleteIssued(last'.calls, e)
                  /\ Printed(last'.untrimmed, e)
            /\ last'.input.trim = "True" =>
                  /\ ~Printed(last'.untrimmed, e)
                  /\ DeleteIssued(last'.calls, e) <=> ~tree[NodeOf(e)].eph]_vars
\* With trim False nothing is deleted.
C34_FalseDeletesNothing ==
    [][TrimStep /\ last'.input.trim = "False" =>
         \A i \in 1..Len(last'.calls) : last'.calls[i][1] # "delete"]_vars

\* C35: at most one primitive watch handler is armed in the service for a
\* key at any time, also for a key whose observers were all dropped while
\* its handler was armed and that a new observer then asks for; so one
\* change of a node puts at most one event of the key on its way.
C35_OneWatchPerKey ==
    \A k \in Keys : armed[k] + PendingCount(pending, k) <= 1

\* Observer o is registered under its resolved path, and only there.
RegisteredOnce(o) ==
    /\ <<obs[o].kind, obs[o].real_path>> \in DOMAIN watches
    /\ \A k \in DOMAIN watches : o \in watches[k] <=> k = <<obs[o].kind, obs[o].real_path>>
\* C36: while the session is connected and no handler or constructor is
\* under way, every live observer is marked deleted, or is registered under
\* its resolved path with a handler armed (or its event on the way) for that
\* key; a failure while one observer of a key is re-armed leaves no other
\* observer of the key out of the registry and not marked deleted.
C36_NoOrphanedObservers ==
    handle # None /\ low = CONNECTED_STATE /\ ctor.pc = "idle" =>
       \A o \in Obs :
          obs[o].live /\ ~obs[o].deleted =>
             /\ RegisteredOnce(o)
             /\ Watched(armed, pending, <<obs[o].kind, obs[o].real_path>>)

\* C37: in a recovery in which some observer of the registry cannot be
\* re-armed because its node is gone, that observer is marked deleted, every
\* other observer of the registry is registered and armed again, every
\* remembered ephemeral whose path is free is created, and the session
\* becomes connected.
C37_RecoveryFaultIsolation ==
    [][(QuietRecovery /\ \E o \in Registered(watches) : ~Exists(tree, obs[o].path))
       => /\ \A o \in Registered(watches) :
                IF Exists(tree, obs[o].path)
                THEN /\ o \in watches'[KeyOf(obs'[o])]
                     /\ Watched(armed', pending', KeyOf(obs'[o]))
                ELSE obs'[o].deleted
          /\ \A p \in Names : (ephemeral[p].present /\ ~tree[p].exists) => tree'[p].exists
          /\ connected']_vars

\* The session event of a suspended or resumed connection is handled: the
\* handle stays and the state changes.
Transient == handle # None /\ handle' = handle /\ low' # low
\* C38: a CONNECTING event and the CONNECTED event after it, for the same
\* handle, each leave the handle, the remembered ephemerals and the registry
\* as they are, create no node and arm no handler; a handler called with a
\* state that is not connected changes no observer, calls no callback and
\* leaves the registry and the armed handlers as they are.
C38_TransientDisconnectNoOp ==
    [][/\ Transient => /\ ephemeral' = ephemeral
                       /\ watches' = watches
                       /\ obs' = obs
                       /\ tree' = tree
                       /\ armed' = armed
                       /\ pending' = pending
                       /\ connected' = (low' = CONNECTED_STATE)
       /\ last'.op = "session_event" => /\ obs' = obs
                                        /\ watches' = watches
                                        /\ armed' = armed
                                        /\ pending' = pending]_vars
\* The connection of a session that remembers an ephemeral node and holds a
\* registered observer with a callback is suspended, and the armed handler
\* of the observer's key was called with the session event.
C38_SuspendedWithObservers ==
    /\ low = CONNECTING_STATE
    /\ ~connected
    /\ last.op = "session_event"
    /\ \E p \in Names : ephemeral[p].present
    /\ \E o \in Obs : /\ obs[o].live
                      /\ obs[o].callbacks # {}
                      /\ o \in watches[KeyOf(obs[o])]
                      /\ armed[KeyOf(obs[o])] >= 1
                      /\ last.key = KeyOf(obs[o])

\* The linked objects that the construction of P made and P holds, directly
\* or through its linked objects, and the resolved paths they are for.
RECURSIVE LinkedCount(_), LinkedTargets(_)
LinkedCount(P) ==
    SumOver([q \in DOMAIN P.linked |-> 1 + LinkedCount(P.linked[q])], DOMAIN P.linked)
LinkedTargets(P) ==
    DOMAIN P.linked \cup UNION {LinkedTargets(P.linked[q]) : q \in DOMAIN P.linked}
\* properties("/a") has returned the object.
Constructed39 == ~obs.made /\ obs'.made
\* C39: properties(path) returns having made at most one linked object for
\* each distinct resolved path that a property link leads to, also when the
\* property links of the nodes form a cycle.
C39_BoundedLinkedObservers ==
    [][Constructed39 =>
         LinkedCount(obs'.props) <= Cardinality(LinkedTargets(obs'.props))]_vars
\* The same on the trees whose property links form no cycle.
LinkCycle(t) ==
    /\ "x =>" \in DOMAIN decode_props(t[<<"a">>].data)
    /\ "x =>" \in DOMAIN decode_props(t[<<"b">>].data)
C39_BoundedWithoutCycle ==
    [][Constructed39 /\ ~LinkCycle(tree) =>
         LinkedCount(obs'.props) <= Cardinality(LinkedTargets(obs'.props))]_vars

\* The store refused the write of a set or update whose data _setData took.
WriteFailed == Writing /\ last'.status \notin {"OK", "RAISED"}
\* C40: after a set or update whose write the store refused, the object's
\* snapshot and its linked objects are those from before the call, and the
\* store's payload is unchanged.
C40_SnapshotNotAhead ==
    [][WriteFailed => /\ obs'.props.data = obs.props.data
                      /\ obs'.props.linked = obs.props.linked
                      /\ tree' = tree]_vars
\* The store is left as it was by a refused write.
C40_StoreUnchanged == [][WriteFailed => tree' = tree]_vars

====
